---- MODULE Spec2Model ----
(***************************************************************************)
(* The catalog store of STLCatalog (src/database_manager.py): the four     *)
(* SQLite tables and the DatabaseManager operations over them.             *)
(*                                                                         *)
(* Text values are sequences of one-character strings, so that the code's  *)
(* string tests (truthiness, strip()) are computed and not assumed.        *)
(*                                                                         *)
(* create_database never issues PRAGMA foreign_keys = ON and every         *)
(* operation opens its own connection with sqlite3.connect(DB_FILE), so    *)
(* the ON DELETE CASCADE clauses of the schema are not enforced: a DELETE  *)
(* (or the delete half of INSERT OR REPLACE) removes the addressed rows    *)
(* only.  UNIQUE and PRIMARY KEY constraints are enforced.                 *)
(***************************************************************************)
EXTENDS Integers, Sequences, FiniteSets, Bags, TLC

VARIABLES
    stl_files,        \* rows of table stl_files
    tags,             \* rows of table tags
    file_tags,        \* rows <<file_id, tag_id>> of table file_tags
    related_files,    \* bag of rows of table related_files (row ids are never read)
    sqlite_sequence,  \* AUTOINCREMENT high-water marks of stl_files and tags
    now,              \* CURRENT_TIMESTAMP: every call is made at a later time than
                      \* the call before it
    last,             \* the call that produced this state: the operation, what it
                      \* returned, the branch it took, the error raised inside it
                      \* and whether statements had written before the error
    calls,            \* number of store calls made so far
    migrated,         \* migrate_json_if_needed has imported stl_catalog.json
    app,              \* the main window (STLCatalogApp): its form fields, its edit
                      \* mode and the ids its list box maps to
    bulk              \* the bulk importer (BulkImportApp): its message queue, the
                      \* processing flag, and where its worker thread and its
                      \* queue poller stand

vars == <<stl_files, tags, file_tags, related_files, sqlite_sequence, now, last, calls, migrated,
          app, bulk>>

----------------------------------------------------------------------------
(* Bounds *)

MaxCalls == 3       \* store calls in one run
MaxFault == 4       \* a storage error can be injected at statements 1..MaxFault

----------------------------------------------------------------------------
(* Text values *)

Empty == << >>
Blank == <<" ">>
FDM == <<"F", "D", "M">>
Resin == <<"R", "e", "s", "i", "n">>
PLA == <<"P", "L", "A">>
BoxPath == <<"/", "a">>
LidPath == <<"/", "b">>
BoxName == <<"B", "o", "x">>
LidName == <<"L", "i", "d">>

DEFAULT_TAGS == <<FDM, Resin>>

IsSpace(c) == c \in {" ", "\t", "\n"}

RECURSIVE LStrip(_)
LStrip(s) == IF s # << >> /\ IsSpace(Head(s)) THEN LStrip(Tail(s)) ELSE s

RECURSIVE RStrip(_)
RStrip(s) ==
    IF s # << >> /\ IsSpace(s[Len(s)]) THEN RStrip(SubSeq(s, 1, Len(s) - 1)) ELSE s

\* a strip() that removes nothing
NoStrip(s) == s

\* str.strip()
Strip(s) == RStrip(LStrip(s))

\* str.split(','): the pieces of s between its commas
RECURSIVE Split(_)
Split(s) ==
    IF \A i \in DOMAIN s : s[i] # ","
    THEN <<s>>
    ELSE LET i == CHOOSE k \in DOMAIN s : s[k] = "," /\ \A j \in 1 .. k - 1 : s[j] # ","
         IN  <<SubSeq(s, 1, i - 1)>> \o Split(SubSeq(s, i + 1, Len(s)))

\* Python truthiness of a str
Truthy(s) == s # << >>

\* the characters of the text values, in code point order: Python compares
\* str values, and SQLite's BINARY collation compares TEXT, by code point
Alphabet ==
    <<"\t", "\n", " ", "%", ",", "/", "A", "B", "D", "F", "L", "M", "P", "R", "_",
      "a", "b", "d", "e", "f", "i", "l", "m", "n", "o", "p", "r", "s", "x">>

Code(c) == CHOOSE i \in 1 .. Len(Alphabet) : Alphabet[i] = c

RECURSIVE TextLess(_, _)
TextLess(a, b) ==
    IF b = << >> THEN FALSE
    ELSE IF a = << >> THEN TRUE
    ELSE IF Head(a) = Head(b) THEN TextLess(Tail(a), Tail(b))
    ELSE Code(Head(a)) < Code(Head(b))

\* a list of the texts of S with the greatest first
RECURSIVE SortedDescending(_)
SortedDescending(S) ==
    IF S = {} THEN << >>
    ELSE LET m == CHOOSE x \in S : \A y \in S : ~TextLess(x, y)
         IN  <<m>> \o SortedDescending(S \ {m})

\* sorted(list(S)) for a set S of str
RECURSIVE sorted(_)
sorted(S) ==
    IF S = {} THEN << >>
    ELSE LET m == CHOOSE x \in S : \A y \in S : ~TextLess(y, x)
         IN  <<m>> \o sorted(S \ {m})

None == 0   \* Python None where an id is expected: AUTOINCREMENT ids start at 1

----------------------------------------------------------------------------
(* The database as a value, and the SQL statements the code executes *)

DB ==
    [stl_files |-> stl_files, tags |-> tags, file_tags |-> file_tags,
     related_files |-> related_files, seq |-> sqlite_sequence]

EmptyDB ==
    [stl_files |-> {}, tags |-> {}, file_tags |-> {}, related_files |-> EmptyBag,
     seq |-> [stl_files |-> 0, tags |-> 0]]

Ok(d) == [db |-> d, err |-> "none"]
IntegrityError(d) == [db |-> d, err |-> "integrity"]

\* SELECT id FROM tags WHERE name = ? ; fetchone() (None when there is no row)
SelectTagId(d, name) ==
    IF \E t \in d.tags : t.name = name
    THEN (CHOOSE t \in d.tags : t.name = name).id
    ELSE None

\* SELECT id FROM stl_files WHERE file_path = ? ; fetchone()
SelectFileId(d, path) ==
    IF \E f \in d.stl_files : f.file_path = path
    THEN (CHOOSE f \in d.stl_files : f.file_path = path).id
    ELSE None

\* SELECT file_id FROM file_tags WHERE tag_id = ?
SelectFileIdsOfTag(d, tag_id) == {l[1] : l \in {m \in d.file_tags : m[2] = tag_id}}

\* INSERT INTO tags (name) VALUES (?)
\* name is UNIQUE; the id is AUTOINCREMENT: above every id ever handed out.
\* (SQLite advances the mark also when an INSERT OR IGNORE is ignored; that
\* only leaves gaps between ids, which the code compares for equality alone,
\* so the mark advances here on the inserts that store a row.)
InsertTag(d, name) ==
    IF \E t \in d.tags : t.name = name
    THEN IntegrityError(d)
    ELSE LET id == d.seq.tags + 1
         IN  Ok([d EXCEPT !.tags = @ \cup {[id |-> id, name |-> name]},
                          !.seq.tags = id])

\* an insert that stores a row also when the name is stored already
InsertTagAgain(d, name) ==
    LET id == d.seq.tags + 1
    IN  Ok([d EXCEPT !.tags = @ \cup {[id |-> id, name |-> name]}, !.seq.tags = id])

\* INSERT OR IGNORE INTO tags (name) VALUES (?)
InsertOrIgnoreTag(d, name) ==
    IF \E t \in d.tags : t.name = name THEN Ok(d) ELSE InsertTag(d, name)

\* INSERT INTO file_tags (file_id, tag_id) VALUES (?, ?)
\* PRIMARY KEY (file_id, tag_id); the FOREIGN KEY clauses are not enforced.
InsertFileTag(d, file_id, tag_id) ==
    IF <<file_id, tag_id>> \in d.file_tags
    THEN IntegrityError(d)
    ELSE Ok([d EXCEPT !.file_tags = @ \cup {<<file_id, tag_id>>}])

\* INSERT OR IGNORE INTO file_tags (file_id, tag_id) VALUES (?, ?)
InsertOrIgnoreFileTag(d, file_id, tag_id) ==
    Ok([d EXCEPT !.file_tags = @ \cup {<<file_id, tag_id>>}])

\* every link is deleted, whatever its tag
DeleteAllFileTags(d, tag_id) == Ok([d EXCEPT !.file_tags = {}])

\* DELETE FROM file_tags WHERE tag_id = ?
DeleteFileTagsOfTag(d, tag_id) ==
    Ok([d EXCEPT !.file_tags = {l \in @ : l[2] # tag_id}])

\* DELETE FROM file_tags WHERE file_id = ?
DeleteFileTagsOfFile(d, file_id) ==
    Ok([d EXCEPT !.file_tags = {l \in @ : l[1] # file_id}])

\* DELETE FROM tags WHERE id = ?   (no cascade into file_tags)
DeleteTagRow(d, tag_id) ==
    Ok([d EXCEPT !.tags = {t \in @ : t.id # tag_id}])

\* a delete that also removes the tags no link refers to
DeleteFileRowAndUnusedTags(d, file_id) ==
    Ok([d EXCEPT !.stl_files = {f \in @ : f.id # file_id},
                 !.tags = {t \in @ : \E l \in d.file_tags : l[2] = t.id}])

\* DELETE FROM stl_files WHERE id = ?   (no cascade into file_tags, related_files)
DeleteFileRow(d, file_id) ==
    Ok([d EXCEPT !.stl_files = {f \in @ : f.id # file_id}])

\* the insert without the replace: the row holding the path stays
InsertKeepingOldFile(d, path, name, multi, ts) ==
    LET id == d.seq.stl_files + 1
        row == [id |-> id, file_path |-> path, name |-> name,
                date_added |-> ts, is_multi_part |-> multi]
    IN  Ok([d EXCEPT !.stl_files = @ \cup {row}, !.seq.stl_files = id])

\* an INSERT OR IGNORE: the row holding the path, if any, stays as it is
InsertOrIgnoreFile(d, path, name, multi, ts) ==
    IF \E f \in d.stl_files : f.file_path = path THEN Ok(d)
    ELSE InsertKeepingOldFile(d, path, name, multi, ts)

\* INSERT OR REPLACE INTO stl_files (file_path, name, is_multi_part) VALUES (?, ?, ?)
\* file_path is UNIQUE: the row holding the path, if any, is deleted and a new
\* row is inserted under a new AUTOINCREMENT id with date_added = CURRENT_TIMESTAMP.
InsertOrReplaceFile(d, path, name, multi, ts) ==
    LET id == d.seq.stl_files + 1
        row == [id |-> id, file_path |-> path, name |-> name,
                date_added |-> ts, is_multi_part |-> multi]
    IN  Ok([d EXCEPT !.stl_files = {f \in @ : f.file_path # path} \cup {row},
                     !.seq.stl_files = id])

\* UPDATE stl_files SET file_path = ?, name = ?, is_multi_part = ? WHERE id = ?
UpdateFile(d, file_id, path, name, multi) ==
    IF /\ \E f \in d.stl_files : f.id = file_id
       /\ \E g \in d.stl_files : g.id # file_id /\ g.file_path = path
    THEN IntegrityError(d)
    ELSE Ok([d EXCEPT !.stl_files =
                {IF f.id = file_id
                 THEN [f EXCEPT !.file_path = path, !.name = name, !.is_multi_part = multi]
                 ELSE f : f \in @}])

\* an update that also clears is_multi_part
UpdateFileClearingFlag(d, file_id, path, name) == UpdateFile(d, file_id, path, name, FALSE)

\* UPDATE stl_files SET file_path = ?, name = ? WHERE id = ?
UpdateFileNoFlag(d, file_id, path, name) ==
    IF /\ \E f \in d.stl_files : f.id = file_id
       /\ \E g \in d.stl_files : g.id # file_id /\ g.file_path = path
    THEN IntegrityError(d)
    ELSE Ok([d EXCEPT !.stl_files =
                {IF f.id = file_id
                 THEN [f EXCEPT !.file_path = path, !.name = name]
                 ELSE f : f \in @}])

\* the related files are kept
KeepRelatedOfFile(d, file_id) == Ok(d)

\* DELETE FROM related_files WHERE main_file_id = ?
DeleteRelatedOfFile(d, file_id) ==
    Ok([d EXCEPT !.related_files =
            [r \in {x \in DOMAIN @ : x.main_file_id # file_id} |-> @[r]]])

\* INSERT INTO related_files (main_file_id, file_path) VALUES (?, ?)
InsertRelated(d, file_id, path) ==
    Ok([d EXCEPT !.related_files =
            @ (+) SetToBag({[main_file_id |-> file_id, file_path |-> path]})])

----------------------------------------------------------------------------
(* A transaction: the working database, the number of statements executed  *)
(* and the error raised, if any.  fault = k > 0 makes the k-th statement   *)
(* raise sqlite3.Error (disk, lock, corruption); fault = 0 injects none.   *)
(* The statements counted are the writing ones and the commit: an error at *)
(* BEGIN or at a SELECT leaves the working database that an error at the   *)
(* next writing statement leaves.                                          *)

Begin(d, fault) == [db |-> d, n |-> 0, fault |-> fault, err |-> "none"]

\* cursor.execute of a statement whose effect on the working database is r
Exec(t, r) ==
    IF t.err # "none" THEN t
    ELSE IF t.n + 1 = t.fault THEN [t EXCEPT !.n = @ + 1, !.err = "storage"]
    ELSE IF r.err # "none" THEN [t EXCEPT !.n = @ + 1, !.err = r.err]
    ELSE [t EXCEPT !.n = @ + 1, !.db = r.db]

\* conn.commit()
Commit(t) == Exec(t, Ok(t.db))

\* a rollback that keeps what the statements wrote
RollbackKeepingWrites(before, t) == t.db

\* what the database holds after conn.rollback()
Rollback(before, t) == before

\* a close that keeps what the open transaction wrote
CloseOpenKeepingWrites(before, t) == t.db

\* what the database holds after conn.close() with the transaction open:
\* SQLite discards the uncommitted changes
CloseOpen(before, t) == before

\* try: ... conn.commit(); return True
\* except sqlite3.Error: conn.rollback(); return False
\* finally: conn.close()
Finish(before, t, branch) ==
    LET c == Commit(t)
    IN  IF c.err = "none"
        THEN [db |-> c.db, ret |-> TRUE, err |-> "none", branch |-> branch, dirty |-> FALSE]
        ELSE IF c.err \in {"storage", "integrity"}
        THEN [db |-> Rollback(before, c), ret |-> FALSE, err |-> c.err,
              branch |-> branch, dirty |-> c.db # before]
        ELSE [db |-> CloseOpen(before, c), ret |-> FALSE, err |-> c.err,
              branch |-> branch, dirty |-> c.db # before]

\* a return before any statement wrote
Return(d, ret, branch) ==
    [db |-> d, ret |-> ret, err |-> "none", branch |-> branch, dirty |-> FALSE]

\* ... conn.commit(); conn.close(); return True, with no try around it: an
\* error leaves the function as an exception (branch "raised", nothing is
\* returned) and the connection is dropped with the transaction open
Propagate(before, t, branch) ==
    LET c == Commit(t)
    IN  IF c.err = "none"
        THEN [db |-> c.db, ret |-> TRUE, err |-> "none", branch |-> branch, dirty |-> FALSE]
        ELSE [db |-> CloseOpen(before, c), ret |-> FALSE, err |-> c.err,
              branch |-> "raised", dirty |-> c.db # before]

\* ids in the order the code's SELECT hands them out (rowid order)
RECURSIVE Ascending(_)
Ascending(S) ==
    IF S = {} THEN << >>
    ELSE LET m == CHOOSE x \in S : \A y \in S : x <= y
         IN  <<m>> \o Ascending(S \ {m})

----------------------------------------------------------------------------
(* DatabaseManager.update_tag *)

\* the merge loop without its SELECT 1 test: every file is inserted
RECURSIVE MergeLinksUnchecked(_, _, _)
MergeLinksUnchecked(t, file_ids, new_tag_id) ==
    IF file_ids = << >> THEN t
    ELSE MergeLinksUnchecked(Exec(t, InsertFileTag(t.db, Head(file_ids), new_tag_id)),
                             Tail(file_ids), new_tag_id)

\* for file_id in file_ids: SELECT 1 ...; if not cursor.fetchone(): INSERT INTO file_tags
RECURSIVE MergeLinks(_, _, _)
MergeLinks(t, file_ids, new_tag_id) ==
    IF file_ids = << >> THEN t
    ELSE LET file_id == Head(file_ids)
             t1 == IF <<file_id, new_tag_id>> \in t.db.file_tags
                   THEN t
                   ELSE Exec(t, InsertFileTag(t.db, file_id, new_tag_id))
         IN  MergeLinks(t1, Tail(file_ids), new_tag_id)

\* the rename loop stopping after its first file
MoveFirstLink(t, file_ids, new_tag_id) ==
    IF file_ids = << >> THEN t
    ELSE Exec(t, InsertFileTag(t.db, Head(file_ids), new_tag_id))

\* for file_id in file_ids: INSERT INTO file_tags
RECURSIVE MoveLinks(_, _, _)
MoveLinks(t, file_ids, new_tag_id) ==
    IF file_ids = << >> THEN t
    ELSE MoveLinks(Exec(t, InsertFileTag(t.db, Head(file_ids), new_tag_id)),
                   Tail(file_ids), new_tag_id)

\* the branch taken when a tag named new_name exists
MergeTag(d, t, old_tag_id, new_tag_id) ==
    LET file_ids == Ascending(SelectFileIdsOfTag(t.db, old_tag_id))
        t1 == MergeLinks(t, file_ids, new_tag_id)
        t2 == Exec(t1, DeleteFileTagsOfTag(t1.db, old_tag_id))
        t3 == Exec(t2, DeleteTagRow(t2.db, old_tag_id))
    IN  Finish(d, t3, IF \E f \in SelectFileIdsOfTag(d, old_tag_id) :
                            <<f, new_tag_id>> \in d.file_tags
                      THEN "merge_both" ELSE "merge")

\* the branch taken when no tag named new_name exists
RenameTag(d, t, old_tag_id, new_name) ==
    LET t1 == Exec(t, InsertTag(t.db, new_name))
        new_tag_id == SelectTagId(t1.db, new_name)
        file_ids == Ascending(SelectFileIdsOfTag(t1.db, old_tag_id))
        t2 == MoveLinks(t1, file_ids, new_tag_id)
        t3 == Exec(t2, DeleteFileTagsOfTag(t2.db, old_tag_id))
        t4 == Exec(t3, DeleteTagRow(t3.db, old_tag_id))
    IN  IF t1.err = "none" /\ new_tag_id = None
        THEN Return(d, FALSE, "rename")
        ELSE Finish(d, t4, "rename")

update_tag(d, old_name, new_name, fault) ==
    IF ~Truthy(old_name) \/ ~Truthy(new_name) THEN Return(d, FALSE, "empty")
    ELSE IF old_name = new_name THEN Return(d, TRUE, "same")
    ELSE LET t == Begin(d, fault)
             old_tag_id == SelectTagId(d, old_name)
             new_tag_id == SelectTagId(d, new_name)
         IN  IF old_tag_id = None THEN Return(d, FALSE, "missing")
             ELSE IF new_tag_id # None THEN MergeTag(d, t, old_tag_id, new_tag_id)
             ELSE RenameTag(d, t, old_tag_id, new_name)

----------------------------------------------------------------------------
(* DatabaseManager.delete_tag *)

\* delete_tag without its DELETE FROM file_tags
delete_tag_keeping_links(d, tag_name, fault) ==
    IF ~Truthy(tag_name) THEN Return(d, FALSE, "empty")
    ELSE LET t == Begin(d, fault)
             tag_id == SelectTagId(d, tag_name)
             t1 == Exec(t, DeleteTagRow(t.db, tag_id))
         IN  IF tag_id # None
             THEN Finish(d, t1, "present")
             ELSE Finish(d, t, "absent")

delete_tag(d, tag_name, fault) ==
    IF ~Truthy(tag_name) THEN Return(d, FALSE, "empty")
    ELSE LET t == Begin(d, fault)
             tag_id == SelectTagId(d, tag_name)
             t1 == Exec(t, DeleteFileTagsOfTag(t.db, tag_id))
             t2 == Exec(t1, DeleteTagRow(t1.db, tag_id))
         IN  IF tag_id # None
             THEN Finish(d, t2, "present")
             ELSE Finish(d, t, "absent")

----------------------------------------------------------------------------
(* DatabaseManager.get_tag_usage_count *)

get_tag_usage_count(d, tag_name) ==
    LET tag_id == SelectTagId(d, tag_name)
    IN  IF tag_id = None THEN 0
        ELSE Cardinality({l \in d.file_tags : l[2] = tag_id})

----------------------------------------------------------------------------
(* DatabaseManager.add_tag, DatabaseManager.collect_all_tags *)

add_tag(d, tag_name, fault) ==
    IF ~Truthy(Strip(tag_name)) THEN Return(d, FALSE, "empty")
    ELSE Propagate(d, Exec(Begin(d, fault), InsertOrIgnoreTag(d, tag_name)), "insert")

\* for tag in DEFAULT_TAGS: INSERT OR IGNORE INTO tags (name) VALUES (?)
RECURSIVE SeedTags(_, _)
SeedTags(t, names) ==
    IF names = << >> THEN t
    ELSE SeedTags(Exec(t, InsertOrIgnoreTag(t.db, Head(names))), Tail(names))

\* the call seeding no default tag
collect_all_tags_unseeded(d) ==
    [db |-> d, ret |-> TRUE, err |-> "none", branch |-> "seed", dirty |-> FALSE,
     all_tags |-> sorted({t.name : t \in d.tags} \cup {DEFAULT_TAGS[i] : i \in DOMAIN DEFAULT_TAGS})]

\* all_tags is the list the call returns; there is none when it raises
collect_all_tags(d, fault) ==
    LET r == Propagate(d, SeedTags(Begin(d, fault), DEFAULT_TAGS), "seed")
    IN  [db |-> r.db, ret |-> r.ret, err |-> r.err, branch |-> r.branch, dirty |-> r.dirty,
         all_tags |-> IF r.ret
                      THEN sorted({t.name : t \in d.tags}
                                  \cup {DEFAULT_TAGS[i] : i \in DOMAIN DEFAULT_TAGS})
                      ELSE << >>]

----------------------------------------------------------------------------
(* DatabaseManager.create_database *)

\* the table is created anew, empty
CreateTableAnew(d, table) == Ok([d EXCEPT ![table] = EmptyDB[table]])

\* CREATE TABLE IF NOT EXISTS table (...): the store of every state has the
\* four tables, so nothing is created and no row is touched
CreateTableIfNotExists(d, table) == Ok(d)

create_database(d) ==
    LET t1 == Exec(Begin(d, 0), CreateTableIfNotExists(d, "stl_files"))
        t2 == Exec(t1, CreateTableIfNotExists(t1.db, "tags"))
        t3 == Exec(t2, CreateTableIfNotExists(t2.db, "file_tags"))
        t4 == Exec(t3, CreateTableIfNotExists(t3.db, "related_files"))
    IN  Propagate(d, t4, "schema")

----------------------------------------------------------------------------
(* DatabaseManager.add_or_update_file_with_related, add_or_update_file *)

\* only the first tag of the list is linked
LinkFirstTag(t, file_id, tag_list) ==
    IF tag_list = << >> THEN t
    ELSE LET t1 == Exec(t, InsertOrIgnoreTag(t.db, Head(tag_list)))
         IN  Exec(t1, InsertOrIgnoreFileTag(t1.db, file_id, SelectTagId(t1.db, Head(tag_list))))

\* for tag in tags: INSERT OR IGNORE INTO tags; SELECT id; INSERT OR IGNORE INTO file_tags
RECURSIVE LinkTags(_, _, _)
LinkTags(t, file_id, tag_list) ==
    IF tag_list = << >> THEN t
    ELSE LET t1 == Exec(t, InsertOrIgnoreTag(t.db, Head(tag_list)))
             tag_id == SelectTagId(t1.db, Head(tag_list))
             t2 == Exec(t1, InsertOrIgnoreFileTag(t1.db, file_id, tag_id))
         IN  LinkTags(t2, file_id, Tail(tag_list))

\* for related_path in related_files: INSERT INTO related_files
RECURSIVE AddRelated(_, _, _)
AddRelated(t, file_id, paths) ==
    IF paths = << >> THEN t
    ELSE AddRelated(Exec(t, InsertRelated(t.db, file_id, Head(paths))),
                    file_id, Tail(paths))

add_or_update_file_with_related(d, file_id, main_file_path, related, name, tag_list, fault, ts) ==
    IF ~Truthy(Strip(main_file_path)) \/ ~Truthy(Strip(name))
    THEN Return(d, FALSE, "invalid")
    ELSE LET t == Begin(d, fault)
             is_multi_part == Len(related) > 1
             t1 == IF file_id = None
                   THEN Exec(t, InsertOrReplaceFile(t.db, main_file_path, name,
                                                    is_multi_part, ts))
                   ELSE Exec(t, UpdateFile(t.db, file_id, main_file_path, name,
                                           is_multi_part))
             fid == IF file_id = None THEN SelectFileId(t1.db, main_file_path)
                    ELSE file_id
             t2 == Exec(t1, DeleteFileTagsOfFile(t1.db, fid))
             t3 == LinkTags(t2, fid, tag_list)
             t4 == Exec(t3, DeleteRelatedOfFile(t3.db, fid))
             t5 == AddRelated(t4, fid, related)
         IN  Finish(d, t5, IF file_id = None THEN "insert" ELSE "update")

add_or_update_file(d, file_id, file_path, name, tag_list, fault, ts) ==
    IF ~Truthy(Strip(file_path)) \/ ~Truthy(Strip(name))
    THEN Return(d, FALSE, "invalid")
    ELSE LET t == Begin(d, fault)
             t1 == IF file_id = None
                   THEN Exec(t, InsertOrReplaceFile(t.db, file_path, name, FALSE, ts))
                   ELSE Exec(t, UpdateFileNoFlag(t.db, file_id, file_path, name))
             fid == IF file_id = None THEN SelectFileId(t1.db, file_path) ELSE file_id
             t2 == Exec(t1, DeleteFileTagsOfFile(t1.db, fid))
             t3 == LinkTags(t2, fid, tag_list)
         IN  Finish(d, t3, IF file_id = None THEN "insert" ELSE "update")

----------------------------------------------------------------------------
(* DatabaseManager.delete_files *)

\* for file_id in file_ids: DELETE FROM file_tags ...; DELETE FROM stl_files ...
RECURSIVE DeleteEach(_, _)
DeleteEach(t, file_ids) ==
    IF file_ids = << >> THEN t
    ELSE LET t1 == Exec(t, DeleteFileTagsOfFile(t.db, Head(file_ids)))
             t2 == Exec(t1, DeleteFileRow(t1.db, Head(file_ids)))
         IN  DeleteEach(t2, Tail(file_ids))

delete_files(d, file_ids, fault) ==
    IF file_ids = << >> THEN Return(d, FALSE, "empty")
    ELSE Finish(d, DeleteEach(Begin(d, fault), file_ids), "delete")

----------------------------------------------------------------------------
(* DatabaseManager.import_from_json *)
(* A document is the sequence of its (file_path, data) items in the order  *)
(* import_data.items() yields them; data is a record that may lack "name"  *)
(* or "tags".                                                              *)

\* DELETE FROM file_tags; DELETE FROM stl_files;
\* DELETE FROM tags WHERE name NOT IN (DEFAULT_TAGS[0], DEFAULT_TAGS[1])
ClearForReplace(t) ==
    LET t1 == Exec(t, Ok([t.db EXCEPT !.file_tags = {}]))
        t2 == Exec(t1, Ok([t1.db EXCEPT !.stl_files = {}]))
    IN  Exec(t2, Ok([t2.db EXCEPT !.tags =
                        {g \in @ : g.name \in {DEFAULT_TAGS[1], DEFAULT_TAGS[2]}}]))

\* data['name'] raises KeyError, which is no sqlite3.Error: the connection is
\* closed with the transaction open and the outer handler returns False
KeyError(t) == [t EXCEPT !.err = "keyerror"]

RECURSIVE ImportEach(_, _, _, _)
ImportEach(t, items, replace, ts) ==
    IF items = << >> THEN t
    ELSE LET file_path == Head(items)[1]
             data == Head(items)[2]
             t1 == IF t.err = "none" /\ "name" \notin DOMAIN data
                   THEN KeyError(t)
                   ELSE Exec(t, InsertOrReplaceFile(t.db, file_path, data.name, FALSE, ts))
             file_id == SelectFileId(t1.db, file_path)
             t2 == IF replace THEN t1
                   ELSE Exec(t1, DeleteFileTagsOfFile(t1.db, file_id))
             tag_list == IF "tags" \in DOMAIN data THEN data.tags ELSE << >>
             t3 == LinkTags(t2, file_id, tag_list)
         IN  ImportEach(t3, Tail(items), replace, ts)

import_from_json(d, import_data, replace, fault, ts) ==
    IF import_data = << >> THEN Return(d, FALSE, "empty")
    ELSE LET t == Begin(d, fault)
             t1 == IF replace THEN ClearForReplace(t) ELSE t
         IN  Finish(d, ImportEach(t1, import_data, replace, ts),
                    IF replace THEN "replace" ELSE "merge")

----------------------------------------------------------------------------
(* DatabaseManager.migrate_json_if_needed *)

\* what stl_catalog.json holds while it exists
LegacyDocument ==
    << <<BoxPath, [name |-> BoxName]>>,
       <<LidPath, [name |-> LidName, tags |-> <<PLA, FDM>>]>> >>

\* the import made whatever the store holds and whether or not the file exists
migrate_json_unconditionally(d, exists, ts) ==
    import_from_json(d, LegacyDocument, FALSE, 0, ts)

\* exists: os.path.exists("stl_catalog.json"); the call neither removes nor
\* renames the file
migrate_json_if_needed(d, exists, ts) ==
    IF Cardinality(d.stl_files) > 0 THEN Return(d, FALSE, "nonempty")
    ELSE IF ~exists THEN Return(d, FALSE, "nofile")
    ELSE import_from_json(d, LegacyDocument, FALSE, 0, ts)

----------------------------------------------------------------------------
(* DatabaseManager.get_file_details_with_related *)

\* SELECT file_path FROM related_files WHERE main_file_id = ? ORDER BY file_path
RECURSIVE OrderByPath(_)
OrderByPath(b) ==
    IF b = EmptyBag THEN << >>
    ELSE LET m == CHOOSE x \in BagToSet(b) :
                    \A y \in BagToSet(b) : ~TextLess(y.file_path, x.file_path)
         IN  <<m.file_path>> \o OrderByPath(b (-) SetToBag({m}))

SelectRelated(d, file_id) ==
    OrderByPath([r \in {x \in DOMAIN d.related_files : x.main_file_id = file_id}
                    |-> d.related_files[r]])

\* the names GROUP_CONCAT(t.name) joins for one file: the LEFT JOINs yield a
\* NULL name, which GROUP_CONCAT skips, for a link whose tag row is missing.
\* SQLite fixes no order of concatenation; the rows come in tag id order here.
JoinedTagNames(d, file_id) ==
    LET ids == Ascending({t.id : t \in {g \in d.tags : <<file_id, g.id>> \in d.file_tags}})
    IN  [i \in 1 .. Len(ids) |-> (CHOOSE t \in d.tags : t.id = ids[i]).name]

RECURSIVE GroupConcat(_)
GroupConcat(names) ==
    IF names = << >> THEN << >>
    ELSE IF Len(names) = 1 THEN names[1]
    ELSE names[1] \o <<",">> \o GroupConcat(Tail(names))

NotFound == [found |-> FALSE]

\* the tag names read from a row's comma-joined tags:
\* row['tags'].split(',') if row['tags'] else []
TagsOf(row) == IF Truthy(row.tags) THEN Split(row.tags) ELSE << >>

get_file_details_with_related(d, file_id) ==
    IF ~\E f \in d.stl_files : f.id = file_id THEN NotFound
    ELSE LET row == CHOOSE f \in d.stl_files : f.id = file_id
         IN  [found |-> TRUE,
              name |-> row.name,
              file_path |-> row.file_path,
              date_added |-> row.date_added,
              tags |-> GroupConcat(JoinedTagNames(d, file_id)),
              is_multi_part |-> row.is_multi_part,
              related_files |-> SelectRelated(d, file_id)]

----------------------------------------------------------------------------
(* DatabaseManager.export_to_json *)
(* json.dump and json.load carry every str, list and dict of the document  *)
(* over unchanged; the document is given as import_from_json reads it back. *)

\* export_data: for each row of the GROUP BY f.id query, in rowid order,
\* file_path -> {"name": name, "tags": the comma-joined tag names split}
export_to_json(d) ==
    LET ids == Ascending({f.id : f \in d.stl_files})
    IN  [i \in 1 .. Len(ids) |->
            LET row == CHOOSE f \in d.stl_files : f.id = ids[i]
            IN  <<row.file_path,
                  [name |-> row.name,
                   tags |-> TagsOf([tags |-> GroupConcat(JoinedTagNames(d, row.id))])]>>]

----------------------------------------------------------------------------
(* DatabaseManager.get_filtered_files *)

UpperCase == <<"A", "B", "D", "F", "L", "M", "P", "R">>
LowerCase == <<"a", "b", "d", "f", "l", "m", "p", "r">>

\* the lower-case form of one character (the texts are ASCII, on which
\* str.lower() and SQLite's LOWER() agree)
LowerChar(c) ==
    IF \E i \in DOMAIN UpperCase : UpperCase[i] = c
    THEN LowerCase[CHOOSE i \in DOMAIN UpperCase : UpperCase[i] = c]
    ELSE c

\* str.lower(), LOWER(text)
lower(s) == [i \in DOMAIN s |-> LowerChar(s[i])]

\* a LIKE that takes every character of the pattern but % for itself
RECURSIVE LikeLiteral(_, _)
LikeLiteral(text, pattern) ==
    IF pattern = << >> THEN text = << >>
    ELSE IF Head(pattern) = "%"
         THEN LikeLiteral(text, Tail(pattern))
                \/ (text # << >> /\ LikeLiteral(Tail(text), pattern))
    ELSE /\ text # << >>
         /\ LowerChar(Head(pattern)) = LowerChar(Head(text))
         /\ LikeLiteral(Tail(text), Tail(pattern))

\* SQLite's  text LIKE pattern : % stands for any run of characters, _ for any
\* one character, every other character for itself without regard to case
RECURSIVE Like(_, _)
Like(text, pattern) ==
    IF pattern = << >> THEN text = << >>
    ELSE IF Head(pattern) = "%"
         THEN Like(text, Tail(pattern)) \/ (text # << >> /\ Like(Tail(text), pattern))
    ELSE /\ text # << >>
         /\ Head(pattern) = "_" \/ LowerChar(Head(pattern)) = LowerChar(Head(text))
         /\ Like(Tail(text), Tail(pattern))

\* rows in ORDER BY name; rows of one name come in rowid order here (SQLite
\* fixes no order among them)
RECURSIVE OrderByName(_)
OrderByName(rows) ==
    IF rows = {} THEN << >>
    ELSE LET m == CHOOSE x \in rows :
                    \A y \in rows : \/ TextLess(x.name, y.name)
                                     \/ (x.name = y.name /\ x.id <= y.id)
         IN  <<[id |-> m.id, name |-> m.name, path |-> m.file_path]>>
                \o OrderByName(rows \ {m})

\* results[index] = {'id', 'name', 'path'}, index = 0, 1, ... (here from 1)
get_filtered_files(d, search_term) ==
    IF Truthy(search_term)
    THEN LET pattern == <<"%">> \o lower(search_term) \o <<"%">>
         IN  OrderByName({f \in d.stl_files :
                 \/ Like(lower(f.name), pattern)
                 \/ \E t \in d.tags : /\ <<f.id, t.id>> \in d.file_tags
                                        /\ Like(lower(t.name), pattern)})
    ELSE OrderByName(d.stl_files)

----------------------------------------------------------------------------
(* The folder-based adds: STLCatalogApp.browse_folder and add_to_catalog,  *)
(* BulkImportApp.import_worker                                              *)

\* [tag.strip() for tag in text.split(',') if tag.strip()]
RECURSIVE StripEach(_)
StripEach(parts) ==
    IF parts = << >> THEN << >>
    ELSE (IF Truthy(Strip(Head(parts))) THEN <<Strip(Head(parts))>> ELSE << >>)
         \o StripEach(Tail(parts))

\* browse_folder keeps the folder's STL files as related_stl_files and sets
\* the path field to the first of them; select_main_stl_file sets the path
\* field to the file the user picks (index) and leaves related_stl_files
browse_folder(stl_paths, index) ==
    [file_path_var |-> stl_paths[index], related_stl_files |-> stl_paths]

\* add_to_catalog, with the fields as browse_folder and the user left them;
\* after a successful add the handler reads the tag list again
\* (self.all_tags = DatabaseManager.collect_all_tags()), which seeds the
\* default tags
add_to_catalog(d, ui, name_var, tags_var, ts) ==
    LET file_path == Strip(ui.file_path_var)
        name == Strip(name_var)
        r == add_or_update_file_with_related(d, None, file_path, ui.related_stl_files,
                                             name, StripEach(Split(tags_var)), 0, ts)
    IN  IF ~Truthy(file_path) \/ ~Truthy(name) THEN Return(d, FALSE, "unfilled")
        ELSE IF r.ret THEN [r EXCEPT !.db = collect_all_tags(r.db, 0).db]
        ELSE r

\* [s for s in stls if s != main]
Without(stls, main) == SelectSeq(stls, LAMBDA s : s # main)

\* one folder of import_worker: prompt is prompt_main_file_var, choice what
\* prompt_for_main_file returns
import_worker(d, stls, name, global_tags, prompt, choice, ts) ==
    LET ask == prompt /\ Len(stls) > 1
        main == IF ask THEN choice ELSE stls[1]
        others == IF ask THEN Without(stls, main)
                  ELSE IF Len(stls) > 1 THEN Tail(stls) ELSE << >>
    IN  add_or_update_file_with_related(d, None, main, others, name, global_tags, 0, ts)

----------------------------------------------------------------------------
(* The inputs the operations are called with *)

\* what the user types into the search box
SearchTerms == {Empty, <<"b">>, <<"P", "L">>, <<"_">>}

TagInputs == {Empty, FDM, PLA}
Faults == 1 .. MaxFault

\* ids a caller can hold: None, or an id the store handed out
FileIdInputs == {None} \cup (1 .. sqlite_sequence.stl_files)

FileIdLists ==
    {<< >>} \cup {<<i>> : i \in 1 .. sqlite_sequence.stl_files}
            \cup {<<i, j>> : i \in 1 .. sqlite_sequence.stl_files,
                              j \in 2 .. sqlite_sequence.stl_files}

\* <<main_file_path, related_files, name, tags>>
Entries ==
    { <<BoxPath, << >>, BoxName, << >>>>,
      <<LidPath, << >>, LidName, <<PLA, PLA>>>>,
      <<BoxPath, <<LidPath>>, BoxName, <<FDM>>>>,
      <<LidPath, <<LidPath>>, BoxName, <<FDM>>>>,
      <<BoxPath, <<LidPath, BoxPath>>, LidName, <<FDM, PLA>>>>,
      <<Blank, << >>, BoxName, <<FDM>>>>,
      <<BoxPath, <<LidPath>>, Empty, <<FDM>>>> }

\* <<stl_files of the folder, index of the main file, name_var, tags_var>>
FolderAdds ==
    { <<<<LidPath, BoxPath>>, 2, LidName, <<"F", "D", "M", ",", "P", "L", "A">>>>,
      <<<<LidPath>>, 1, BoxName, <<"F", "D", "M">>>> }

\* <<stls, name, prompt_main_file_var, the file picked when prompted>>
BulkFolders ==
    { <<<<BoxPath, LidPath>>, BoxName, FALSE, BoxPath>>,
      <<<<LidPath, BoxPath>>, BoxName, TRUE, BoxPath>> }

Documents ==
    { << >>,
      << <<BoxPath, [name |-> LidName, tags |-> <<Empty>>]>> >>,
      << <<BoxPath, [name |-> BoxName]>>,
         <<LidPath, [name |-> LidName, tags |-> <<PLA, FDM>>]>> >>,
      << <<LidPath, [name |-> BoxName, tags |-> <<FDM>>]>>,
         <<BoxPath, [tags |-> <<FDM>>]>> >> }

----------------------------------------------------------------------------
(* The state machine *)

\* STLCatalogApp.__init__: an empty form, not editing, the default settings.
\* selected records the last action that set the path field, touched whether
\* a field was set since edit_selected filled the form.
AppInit ==
    [file_path_var |-> Empty, name_var |-> Empty, tags_var |-> Empty,
     related_stl_files |-> << >>, edit_mode |-> FALSE, editing_file_id |-> None,
     listbox_mapping |-> << >>, settings |-> [confirm_delete |-> TRUE],
     selected |-> "none", touched |-> FALSE]

\* BulkImportApp.__init__: an empty queue, processing False, no worker thread
\* and no poll scheduled.  put and shown count the messages enqueued and the
\* messages dequeued and displayed.
BulkInit ==
    [queue |-> << >>, processing |-> FALSE, worker |-> "idle", i |-> 1,
     poller |-> "idle", put |-> 0, shown |-> 0, prompt |-> FALSE]

StoreInit ==
    /\ stl_files = EmptyDB.stl_files
    /\ tags = EmptyDB.tags
    /\ file_tags = EmptyDB.file_tags
    /\ related_files = EmptyDB.related_files
    /\ sqlite_sequence = EmptyDB.seq
    /\ now = 0
    /\ last = [op |-> "create_database", ret |-> TRUE, err |-> "none", branch |-> "init",
               dirty |-> FALSE]
    /\ calls = 0
    /\ migrated = FALSE

Init == StoreInit /\ app = AppInit /\ bulk = BulkInit

\* the store call op ran and produced r
Call(op, r) ==
    /\ calls < MaxCalls
    /\ calls' = calls + 1
    /\ stl_files' = r.db.stl_files
    /\ tags' = r.db.tags
    /\ file_tags' = r.db.file_tags
    /\ related_files' = r.db.related_files
    /\ sqlite_sequence' = r.db.seq
    /\ last' = [op |-> op, ret |-> r.ret, err |-> r.err, branch |-> r.branch,
                dirty |-> r.dirty]
    /\ now' = now + 1
    /\ migrated' = (migrated \/ (op = "migrate_json_if_needed" /\ r.ret))

\* a call of a store operation, the windows left alone
Apply(op, r) == Call(op, r) /\ UNCHANGED <<app, bulk>>

CreateDatabase == Apply("create_database", create_database(DB))

CollectAllTagsCall(fault) == Apply("collect_all_tags", collect_all_tags(DB, fault))

CollectAllTags == CollectAllTagsCall(0)

CollectAllTagsFault == \E fault \in Faults : CollectAllTagsCall(fault)

AddTagCall(tag_name, fault) == Apply("add_tag", add_tag(DB, tag_name, fault))

AddTag == \E tag_name \in TagInputs \cup {Blank} : AddTagCall(tag_name, 0)

AddTagFault == \E fault \in Faults : AddTagCall(PLA, fault)

UpdateTagCall(old_name, new_name, fault) ==
    Apply("update_tag", update_tag(DB, old_name, new_name, fault))

UpdateTag == \E old_name, new_name \in TagInputs, fault \in {0} \cup Faults :
                UpdateTagCall(old_name, new_name, fault)

DeleteTagCall(tag_name, fault) == Apply("delete_tag", delete_tag(DB, tag_name, fault))

DeleteTag == \E tag_name \in TagInputs, fault \in {0} \cup Faults :
                DeleteTagCall(tag_name, fault)

UpsertCall(file_id, e, fault) ==
    Apply("add_or_update_file_with_related",
          add_or_update_file_with_related(DB, file_id, e[1], e[2], e[3], e[4], fault, now))

Upsert == \E file_id \in FileIdInputs, e \in Entries : UpsertCall(file_id, e, 0)

\* the storage error reaches the tag statements of the first entry and the
\* related-file statements of the second
UpsertFaultEntries ==
    { <<BoxPath, <<LidPath>>, BoxName, <<FDM>>>>,
      <<BoxPath, <<LidPath>>, LidName, << >>>> }

UpsertFault ==
    \E file_id \in FileIdInputs, e \in UpsertFaultEntries, fault \in Faults :
        UpsertCall(file_id, e, fault)

AddOrUpdateFileCall(file_id, file_path, name, tag_list, fault) ==
    Apply("add_or_update_file",
          add_or_update_file(DB, file_id, file_path, name, tag_list, fault, now))

AddOrUpdateFile ==
    \E file_id \in FileIdInputs,
       e \in {<<BoxPath, LidName, <<FDM>>>>, <<LidPath, LidName, << >>>>,
              <<BoxPath, Blank, << >>>>} :
        AddOrUpdateFileCall(file_id, e[1], e[2], e[3], 0)

AddOrUpdateFileFault ==
    \E file_id \in FileIdInputs, fault \in Faults :
        AddOrUpdateFileCall(file_id, BoxPath, LidName, <<PLA>>, fault)

DeleteFilesCall(file_ids, fault) == Apply("delete_files", delete_files(DB, file_ids, fault))

DeleteFiles == \E file_ids \in FileIdLists : DeleteFilesCall(file_ids, 0)

DeleteFilesFault ==
    \E fault \in Faults :
        DeleteFilesCall(Ascending(1 .. sqlite_sequence.stl_files), fault)

ImportCall(import_data, replace, fault) ==
    Apply("import_from_json", import_from_json(DB, import_data, replace, fault, now))

Import == \E import_data \in Documents, replace \in BOOLEAN :
             ImportCall(import_data, replace, 0)

\* the document the storage error is injected into
FaultDocument == << <<BoxPath, [name |-> BoxName, tags |-> <<PLA>>]>> >>

ImportFault ==
    \E replace \in BOOLEAN, fault \in Faults : ImportCall(FaultDocument, replace, fault)

AddFolderToCatalogCall(a) ==
    Apply("add_to_catalog", add_to_catalog(DB, browse_folder(a[1], a[2]), a[3], a[4], now))

AddFolderToCatalog == \E a \in FolderAdds : AddFolderToCatalogCall(a)

BulkImportCall(b) ==
    Apply("add_or_update_file_with_related",
          import_worker(DB, b[1], b[2], <<FDM>>, b[3], b[4], now))

BulkImport == \E b \in BulkFolders : BulkImportCall(b)

MigrateCall(exists) ==
    Apply("migrate_json_if_needed", migrate_json_if_needed(DB, exists, now))

Migrate == \E exists \in BOOLEAN : MigrateCall(exists)

Next ==
    \/ CreateDatabase
    \/ CollectAllTags
    \/ CollectAllTagsFault
    \/ AddTag
    \/ AddTagFault
    \/ UpdateTag
    \/ DeleteTag
    \/ Upsert
    \/ UpsertFault
    \/ AddOrUpdateFile
    \/ AddOrUpdateFileFault
    \/ DeleteFiles
    \/ DeleteFilesFault
    \/ Import
    \/ ImportFault
    \/ AddFolderToCatalog
    \/ BulkImport
    \/ Migrate

Spec == Init /\ [][Next]_vars

----------------------------------------------------------------------------
(* The bulk importer: BulkImportApp.start_import, the thread running       *)
(* import_worker and the poller check_queue on the UI thread.  A step is   *)
(* what one thread does up to its next access to the queue or to the       *)
(* processing flag.                                                        *)

\* what scan_folders found: <<stls, clean_name>> of each folder
folders_data ==
    << <<<<BoxPath, LidPath>>, BoxName>>,
       <<<<LidPath>>, LidName>> >>

\* the messages one run can enqueue: a log and a progress message for every
\* folder and the final log message
MaxMessages == 2 * Len(folders_data) + 1

StoreUnchanged ==
    UNCHANGED <<stl_files, tags, file_tags, related_files, sqlite_sequence, now, last,
                calls, migrated>>

\* self.queue.put(msg)
Put(b, msg) == [b EXCEPT !.queue = Append(@, msg), !.put = @ + 1]

\* start_import: processing = True, the worker thread is started and the
\* first poll is scheduled
StartImport ==
    /\ bulk.worker = "idle"
    /\ folders_data # << >>
    /\ \E prompt \in BOOLEAN :
            bulk' = [bulk EXCEPT !.processing = TRUE, !.worker = "loop",
                                 !.poller = "scheduled", !.prompt = prompt]
    /\ StoreUnchanged
    /\ UNCHANGED app

\* import_worker, one pass of the loop up to the store call: picked is the
\* file prompt_for_main_file returns when it is asked, 0 when it returns None
WorkerIterate ==
    /\ bulk.worker = "loop"
    /\ bulk.i <= Len(folders_data)
    /\ UNCHANGED app
    /\ LET stls == folders_data[bulk.i][1]
           name == folders_data[bulk.i][2]
       IN  IF ~bulk.processing
           THEN bulk' = [bulk EXCEPT !.i = Len(folders_data) + 1] /\ StoreUnchanged
           ELSE \E picked \in {0} \cup DOMAIN stls :
                   IF bulk.prompt /\ Len(stls) > 1 /\ picked = 0
                   THEN /\ bulk' = [Put(bulk, <<"log", "skipping", bulk.i>>)
                                        EXCEPT !.i = @ + 1]
                        /\ StoreUnchanged
                   ELSE /\ Call("add_or_update_file_with_related",
                                import_worker(DB, stls, name, <<FDM>>, bulk.prompt,
                                              IF picked = 0 THEN None ELSE stls[picked],
                                              now))
                        /\ bulk' = [bulk EXCEPT !.worker = "log"]

\* self.queue.put(("log", ...)) with the result of the store call
WorkerPutLog ==
    /\ bulk.worker = "log"
    /\ bulk' = [Put(bulk, <<"log", IF last.ret THEN "imported" ELSE "failed", bulk.i>>)
                    EXCEPT !.worker = "progress"]
    /\ StoreUnchanged
    /\ UNCHANGED app

\* self.queue.put(("progress", ...)) and on to the next folder
WorkerPutProgress ==
    /\ bulk.worker = "progress"
    /\ bulk' = [Put(bulk, <<"progress", "percent", bulk.i>>)
                    EXCEPT !.worker = "loop", !.i = @ + 1]
    /\ StoreUnchanged
    /\ UNCHANGED app

\* after the loop: self.queue.put(("log", "Import complete."))
WorkerPutComplete ==
    /\ bulk.worker = "loop"
    /\ bulk.i > Len(folders_data)
    /\ bulk' = [Put(bulk, <<"log", "complete", bulk.i>>) EXCEPT !.worker = "finish"]
    /\ StoreUnchanged
    /\ UNCHANGED app

\* self.processing = False, the last statement of the thread
WorkerFinish ==
    /\ bulk.worker = "finish"
    /\ bulk' = [bulk EXCEPT !.processing = FALSE, !.worker = "done"]
    /\ StoreUnchanged
    /\ UNCHANGED app

\* the timer set by root.after(100, self.check_queue) fires
PollerWake ==
    /\ bulk.poller = "scheduled"
    /\ bulk' = [bulk EXCEPT !.poller = "drain"]
    /\ StoreUnchanged
    /\ UNCHANGED app

\* msg = self.queue.get_nowait(): the message is shown, or queue.Empty is
\* raised and caught
PollerGet ==
    /\ bulk.poller = "drain"
    /\ bulk' = IF bulk.queue # << >>
               THEN [bulk EXCEPT !.queue = Tail(@), !.shown = @ + 1]
               ELSE [bulk EXCEPT !.poller = "empty"]
    /\ StoreUnchanged
    /\ UNCHANGED app

\* except queue.Empty: if self.processing: self.root.after(100, self.check_queue)
PollerCheck ==
    /\ bulk.poller = "empty"
    /\ bulk' = [bulk EXCEPT !.poller = IF bulk.processing THEN "scheduled" ELSE "stopped"]
    /\ StoreUnchanged
    /\ UNCHANGED app

Worker ==
    \/ WorkerIterate
    \/ WorkerPutLog
    \/ WorkerPutProgress
    \/ WorkerPutComplete
    \/ WorkerFinish

Poller ==
    \/ PollerWake
    \/ PollerGet
    \/ PollerCheck

BulkNext ==
    \/ StartImport
    \/ Worker
    \/ Poller

\* the step of WorkerIterate as bulk shows it: it is possible when
\* WorkerIterate is, and a step that changes bulk in this way is a step of
\* WorkerIterate
WorkerAdvance ==
    /\ bulk.worker = "loop"
    /\ bulk.i <= Len(folders_data)
    /\ calls < MaxCalls
    /\ bulk' \in {[bulk EXCEPT !.worker = "log"],
                  [Put(bulk, <<"log", "skipping", bulk.i>>) EXCEPT !.i = @ + 1],
                  [bulk EXCEPT !.i = Len(folders_data) + 1]}

\* the worker thread runs while it has a statement to execute, and a timer
\* that was set fires; whether the user starts an import is up to the user
BulkSpec ==
    /\ Init /\ [][BulkNext]_vars
    /\ WF_bulk(WorkerAdvance)
    /\ WF_vars(WorkerPutLog) /\ WF_vars(WorkerPutProgress)
    /\ WF_vars(WorkerPutComplete) /\ WF_vars(WorkerFinish)
    /\ WF_vars(Poller)

----------------------------------------------------------------------------
(* The main window: STLCatalogApp (ui/app.py) with the functions of        *)
(* ui/file_manager.py its handlers call.  The paths stand for STL files and *)
(* are written without the extension; names are one word of letters.        *)

\* settings.get("confirm_delete", True)
ConfirmDelete(settings) ==
    IF "confirm_delete" \in DOMAIN settings THEN settings.confirm_delete ELSE TRUE

\* settings dictionaries: the setting on, off and absent
SettingsInputs ==
    {[confirm_delete |-> TRUE], [confirm_delete |-> FALSE], [show_success_messages |-> TRUE]}

\* os.path.basename
Basename(path) ==
    IF \E i \in DOMAIN path : path[i] = "/"
    THEN LET k == CHOOSE i \in DOMAIN path :
                     path[i] = "/" /\ \A j \in DOMAIN path : path[j] = "/" => j <= i
         IN  SubSeq(path, k + 1, Len(path))
    ELSE path

\* the name browse_stl_file and browse_stl_folder derive from a file or folder
\* name of one word of letters: word.capitalize()
clean_name(filename) ==
    IF filename = << >> THEN << >>
    ELSE LET c == Head(filename)
             up == IF \E i \in DOMAIN LowerCase : LowerCase[i] = c
                   THEN UpperCase[CHOOSE i \in DOMAIN LowerCase : LowerCase[i] = c]
                   ELSE c
         IN  <<up>> \o lower(Tail(filename))

\* the name field after a browse dialog: set from the file or folder name
\* unless the window is in edit mode and the field holds a name
AutoName(ui, path) ==
    IF ~ui.edit_mode \/ ~Truthy(ui.name_var) THEN clean_name(Basename(path))
    ELSE ui.name_var

\* update_file_list with an empty search box: listbox_mapping[index] = id
update_file_list(d) ==
    LET files == get_filtered_files(d, Empty)
    IN  [index \in DOMAIN files |-> files[index].id]

\* exit_edit_mode
exit_edit_mode(ui) ==
    [ui EXCEPT !.edit_mode = FALSE, !.editing_file_id = None,
               !.related_stl_files = << >>,
               !.file_path_var = Empty, !.name_var = Empty, !.tags_var = Empty]

\* edit_selected for the entry file_id with the details the store returned:
\* enter_edit_mode, then the form is filled; the main path is appended to the
\* related files when it is not among them
edit_selected(ui, file_id, details) ==
    [ui EXCEPT !.edit_mode = TRUE, !.editing_file_id = file_id,
               !.file_path_var = details.file_path,
               !.name_var = details.name,
               !.related_stl_files =
                   IF \E k \in DOMAIN details.related_files :
                          details.related_files[k] = details.file_path
                   THEN details.related_files
                   ELSE Append(details.related_files, details.file_path),
               !.tags_var = details.tags]

\* update_in_catalog
update_in_catalog(d, ui, ts) ==
    LET file_path == Strip(ui.file_path_var)
        name == Strip(ui.name_var)
    IN  IF ~ui.edit_mode \/ ui.editing_file_id = None THEN Return(d, FALSE, "not editing")
        ELSE IF ~Truthy(file_path) \/ ~Truthy(name) THEN Return(d, FALSE, "unfilled")
        ELSE add_or_update_file_with_related(d, ui.editing_file_id, file_path,
                                             ui.related_stl_files, name,
                                             StripEach(Split(ui.tags_var)), 0, ts)

\* the outcome of delete_files_from_catalog: prompted, the confirmation dialog
\* was shown; called, DatabaseManager.delete_files was called
Outcome(r, prompted, called) ==
    [db |-> r.db, ret |-> r.ret, err |-> r.err, branch |-> r.branch, dirty |-> r.dirty,
     prompted |-> prompted, called |-> called]

\* the deletion goes ahead whatever the user answers
delete_files_unasked(d, file_ids, settings, answer, fault) ==
    IF file_ids = << >> THEN Outcome(Return(d, FALSE, "no ids"), FALSE, FALSE)
    ELSE Outcome(delete_files(d, file_ids, fault), ConfirmDelete(settings), TRUE)

\* delete_files_from_catalog; answer is what askyesno returns; after a
\* successful deletion update_callback (update_after_database_change) reads
\* the tag list again, which seeds the default tags
delete_files_from_catalog(d, file_ids, settings, answer, fault) ==
    IF file_ids = << >> THEN Outcome(Return(d, FALSE, "no ids"), FALSE, FALSE)
    ELSE IF ConfirmDelete(settings) /\ ~answer
    THEN Outcome(Return(d, FALSE, "declined"), TRUE, FALSE)
    ELSE LET r == delete_files(d, file_ids, fault)
         IN  IF r.ret
             THEN Outcome([r EXCEPT !.db = collect_all_tags(r.db, 0).db],
                          ConfirmDelete(settings), TRUE)
             ELSE Outcome(r, ConfirmDelete(settings), TRUE)

\* <<folder_path, the STL files os.listdir finds in it>>
FolderInputs == { <<<<"/">>, <<LidPath, BoxPath>>>> }

\* what the user types into the name field
NameInputs == {LidName}

\* STLCatalogApp.__init__ on a new store: create_database, collect_all_tags,
\* create_ui (which fills the list) and then migrate_json_if_needed
AppStart ==
    \E exists \in BOOLEAN :
        LET d0 == collect_all_tags(create_database(EmptyDB).db, 0).db
            m == migrate_json_if_needed(d0, exists, 0)
        IN  /\ stl_files = m.db.stl_files
            /\ tags = m.db.tags
            /\ file_tags = m.db.file_tags
            /\ related_files = m.db.related_files
            /\ sqlite_sequence = m.db.seq
            /\ now = 1
            /\ last = [op |-> "migrate_json_if_needed", ret |-> m.ret, err |-> m.err,
                       branch |-> m.branch, dirty |-> m.dirty]
            /\ calls = 0
            /\ migrated = m.ret
            /\ app = [AppInit EXCEPT !.listbox_mapping = update_file_list(d0)]
            /\ bulk = BulkInit

\* a handler that makes no store call, or the user typing
Ui ==
    /\ last' = [op |-> "none", ret |-> TRUE, err |-> "none", branch |-> "ui",
                dirty |-> FALSE]
    /\ UNCHANGED <<stl_files, tags, file_tags, related_files, sqlite_sequence, now, calls,
                   migrated, bulk>>

\* Browse Folder: browse_stl_folder, then the dialog of select_main_stl_file
BrowseFolder ==
    \E f \in FolderInputs, index \in 1 .. 2 :
        LET b == browse_folder(f[2], index)
        IN  /\ index \in DOMAIN f[2]
            /\ app' = [app EXCEPT !.file_path_var = b.file_path_var,
                                  !.related_stl_files = b.related_stl_files,
                                  !.name_var = AutoName(app, f[1]),
                                  !.selected = "folder", !.touched = app.edit_mode]
            /\ Ui

\* Browse File: browse_stl_file
BrowseFile ==
    \E path \in {BoxPath, LidPath} :
        /\ app' = [app EXCEPT !.file_path_var = path,
                              !.name_var = AutoName(app, path),
                              !.selected = "file", !.touched = app.edit_mode]
        /\ Ui

\* the user types a name where the browse dialog left the field empty
TypeName ==
    \E name \in NameInputs :
        /\ Truthy(app.file_path_var) /\ ~Truthy(app.name_var)
        /\ app' = [app EXCEPT !.name_var = name, !.touched = app.edit_mode]
        /\ Ui

\* the settings dialog saves the other value of confirm_delete
SaveSettings ==
    /\ app' = [app EXCEPT !.settings = [confirm_delete |-> ~ConfirmDelete(@)]]
    /\ Ui

\* submit_entry outside edit mode: add_to_catalog with a path and a name
AddToCatalog ==
    /\ ~app.edit_mode
    /\ Truthy(Strip(app.file_path_var)) /\ Truthy(Strip(app.name_var))
    /\ LET r == add_to_catalog(DB, app, app.name_var, app.tags_var, now)
       IN  /\ Call("add_to_catalog", r)
           /\ app' = IF r.ret
                     THEN [app EXCEPT !.file_path_var = Empty, !.name_var = Empty,
                                      !.tags_var = Empty, !.related_stl_files = << >>,
                                      !.listbox_mapping = update_file_list(r.db),
                                      !.selected = "none", !.touched = FALSE]
                     ELSE app
    /\ UNCHANGED bulk

\* submit_entry in edit mode: update_in_catalog with a path and a name
UpdateInCatalog ==
    /\ app.edit_mode
    /\ Truthy(Strip(app.file_path_var)) /\ Truthy(Strip(app.name_var))
    /\ LET r == update_in_catalog(DB, app, now)
       IN  /\ Call("update_in_catalog", r)
           /\ app' = IF r.ret
                     THEN [exit_edit_mode(app) EXCEPT
                              !.listbox_mapping = update_file_list(r.db),
                              !.selected = "none", !.touched = FALSE]
                     ELSE app
    /\ UNCHANGED bulk

\* Edit on the one selected row of the list
EditSelected ==
    /\ ~app.edit_mode
    /\ \E index \in DOMAIN app.listbox_mapping :
          LET file_id == app.listbox_mapping[index]
              details == get_file_details_with_related(DB, file_id)
          IN  /\ details.found
              /\ app' = [edit_selected(app, file_id, details) EXCEPT
                            !.selected = "edit", !.touched = FALSE]
    /\ Ui

\* Cancel, enabled in edit mode
CancelEdit ==
    /\ app.edit_mode
    /\ app' = [exit_edit_mode(app) EXCEPT !.selected = "none", !.touched = FALSE]
    /\ Ui

\* the ids delete_selected collects from the selected rows
SelectedIds(ui, selection) ==
    LET rows == Ascending(selection)
    IN  [k \in DOMAIN rows |-> ui.listbox_mapping[rows[k]]]

\* delete_selected with the rows selection selected; answer is what the user
\* answers when asked
DeleteSelectedCall(selection, answer, fault) ==
    LET r == delete_files_from_catalog(DB, SelectedIds(app, selection), app.settings,
                                       answer, fault)
    IN  /\ ~app.edit_mode
        /\ selection # {}
        /\ Call("delete_files_from_catalog", r)
        /\ app' = [app EXCEPT
                      !.listbox_mapping = IF r.ret THEN update_file_list(r.db) ELSE @]
        /\ UNCHANGED bulk

\* Delete on the selected rows of the list
DeleteSelected ==
    \E selection \in SUBSET DOMAIN app.listbox_mapping, answer \in BOOLEAN,
       fault \in {0, 1} :
        DeleteSelectedCall(selection, answer, fault)

AppNext ==
    \/ BrowseFolder
    \/ BrowseFile
    \/ TypeName
    \/ SaveSettings
    \/ AddToCatalog
    \/ UpdateInCatalog
    \/ EditSelected
    \/ CancelEdit
    \/ DeleteSelected

AppSpec == AppStart /\ [][AppNext]_vars

----------------------------------------------------------------------------
(* What the claims speak about *)

HasTag(d, name) == \E t \in d.tags : t.name = name

\* file_id is linked to the stored tag called name
Linked(d, file_id, name) ==
    \E t \in d.tags : t.name = name /\ <<file_id, t.id>> \in d.file_tags

\* every id stl_files has handed out: the ids of the entries and of rows left
\* behind by entries that are gone
IssuedFileIds == 1 .. sqlite_sequence.stl_files

TagNames == TagInputs \cup {Resin}

----------------------------------------------------------------------------
(* C1 - C10 *)

\* C1: in every reachable state each related-file row's main_file_id is the id
\* of an entry that exists; no related-file row outlives its owning entry.
C1_RelatedFilesHaveOwner ==
    \A r \in DOMAIN related_files : \E f \in stl_files : f.id = r.main_file_id

\* C2: in every reachable state each entry-tag link references an entry that
\* exists and a tag that exists.
C2_LinksHaveEntryAndTag ==
    \A l \in file_tags :
        /\ \E f \in stl_files : f.id = l[1]
        /\ \E t \in tags : t.id = l[2]

\* C3: after a successful delete_files(ids), for every id of ids the entry row
\* is gone, no entry-tag link and no related-file row carries the id, and
\* get_file_details_with_related(id) returns the not-found result.
C3_DeleteRemovesEverything ==
    [][(last'.op = "delete_files" /\ last'.ret) =>
        \A file_ids \in FileIdLists :
              (DeleteFilesCall(file_ids, 0) /\ last'.ret) =>
                  \A k \in 1 .. Len(file_ids) :
                      /\ ~\E f \in stl_files' : f.id = file_ids[k]
                      /\ ~\E l \in file_tags' : l[1] = file_ids[k]
                      /\ ~\E r \in DOMAIN related_files' : r.main_file_id = file_ids[k]
                      /\ get_file_details_with_related(DB', file_ids[k]) = NotFound]_vars

\* C4: no two entries have the same file_path in any reachable state, and a
\* successful add_or_update_file_with_related with file_id None leaves exactly
\* one entry for the path, carrying the name passed, and adds no entry when the
\* path was cataloged already.
C4_PathsUnique == \A f, g \in stl_files : f.file_path = g.file_path => f = g

C4_UniquePathAndReplace ==
    /\ []C4_PathsUnique
    /\ [][(last'.op = "add_or_update_file_with_related" /\ last'.ret) =>
            \A e \in Entries :
                 (UpsertCall(None, e, 0) /\ last'.ret) =>
                     /\ Cardinality({f \in stl_files' : f.file_path = e[1]}) = 1
                     /\ \A f \in stl_files' : f.file_path = e[1] => f.name = e[3]
                     /\ SelectFileId(DB, e[1]) # None =>
                            Cardinality(stl_files') = Cardinality(stl_files)]_vars

\* C4 witness: two calls handed out two ids, the second one an upsert with
\* file_id None, and one entry is stored: the upsert replaced the entry of its path.
C4_Witness ==
    /\ last.op = "add_or_update_file_with_related"
    /\ last.branch = "insert" /\ last.ret
    /\ calls = 2
    /\ sqlite_sequence.stl_files = 2
    /\ \E f \in stl_files : stl_files = {f} /\ f.id = 2 /\ f.name = LidName

\* C5: update_tag(A, B) with A stored, B not stored, A # B, when it succeeds:
\* exactly the ids that were linked to A are linked to B, none is linked to A,
\* a tag named B exists and no tag named A exists.
C5_RenameMovesLinks ==
    [][last'.op = "update_tag" =>
        \A A, B \in TagInputs :
              (/\ UpdateTagCall(A, B, 0) /\ last'.ret
               /\ HasTag(DB, A) /\ ~HasTag(DB, B) /\ A # B) =>
                  /\ \A i \in IssuedFileIds :
                        /\ Linked(DB', i, B) = Linked(DB, i, A)
                        /\ ~Linked(DB', i, A)
                  /\ HasTag(DB', B)
                  /\ ~HasTag(DB', A)]_vars

\* C5 witness: a rename succeeded and an existing entry is linked to the tag
\* row the rename created.
C5_Witness ==
    /\ last.op = "update_tag" /\ last.branch = "rename" /\ last.ret
    /\ \E f \in stl_files : <<f.id, sqlite_sequence.tags>> \in file_tags
    /\ \E t \in tags : t.id = sqlite_sequence.tags

\* C6: update_tag(A, B) with A and B stored, A # B (merge): without a storage
\* error the call succeeds for non-empty names, and after a successful call the
\* ids linked to B are those that were linked to A or to B, each by one link,
\* no link to A's row remains and no tag named A exists.
C6_MergeUnitesLinks ==
    [][last'.op = "update_tag" =>
        \A A, B \in TagInputs :
              (UpdateTagCall(A, B, 0) /\ HasTag(DB, A) /\ HasTag(DB, B) /\ A # B) =>
                  /\ (Truthy(A) /\ Truthy(B)) => last'.ret
                  /\ last'.ret =>
                        /\ \A i \in IssuedFileIds :
                              /\ Linked(DB', i, B) = (Linked(DB, i, A) \/ Linked(DB, i, B))
                              /\ Linked(DB', i, B) =>
                                    Cardinality({l \in file_tags' :
                                        l = <<i, SelectTagId(DB', B)>>}) = 1
                        /\ \A l \in file_tags' : l[2] # SelectTagId(DB, A)
                        /\ ~HasTag(DB', A)
                        /\ SelectTagId(DB', B) = SelectTagId(DB, B)]_vars

\* C6 witness: a merge succeeded in which some file was linked to both tags.
C6_Witness ==
    /\ last.op = "update_tag" /\ last.branch = "merge_both" /\ last.ret
    /\ \E f \in stl_files : \E t \in tags : <<f.id, t.id>> \in file_tags

\* C7: update_tag is atomic: when a statement of the rename or of the merge
\* raises a storage error, the call returns False and every table is as it
\* was before the call; a call that returns False has changed nothing.
C7_UpdateTagAtomic ==
    [][(last'.op = "update_tag" /\ (last'.err # "none" \/ ~last'.ret)) =>
          (~last'.ret /\ DB' = DB)]_vars

\* C7 witness: a rename or merge failed on a storage error raised after
\* earlier statements of the call had written.
C7_Witness ==
    /\ last.op = "update_tag" /\ last.err = "storage" /\ last.dirty /\ ~last.ret
    /\ last.branch \in {"rename", "merge", "merge_both"}
    /\ tags # {} /\ file_tags # {}

\* C8: update_tag(old, new) returns False and changes nothing whenever old or
\* new is empty or no tag named old is stored, also when new = old; when old
\* is stored and old = new it returns True and changes nothing.
C8_MissingOldTagFails ==
    [][last'.op = "update_tag" =>
        \A old_name, new_name \in TagInputs :
              UpdateTagCall(old_name, new_name, 0) =>
                  /\ (~Truthy(old_name) \/ ~Truthy(new_name) \/ ~HasTag(DB, old_name)) =>
                        (~last'.ret /\ DB' = DB)
                  /\ (Truthy(old_name) /\ HasTag(DB, old_name) /\ old_name = new_name) =>
                        (last'.ret /\ DB' = DB)]_vars

\* C9: in every reachable state get_tag_usage_count(t) is the number of
\* existing entries linked to tag t, and 0 when no tag named t is stored.
C9_UsageCountIsLinkedEntries ==
    \A name \in TagNames :
        get_tag_usage_count(DB, name) =
            Cardinality({f \in stl_files : Linked(DB, f.id, name)})

\* C10 as stated: delete_tag(name) succeeds for every name; after it no tag
\* named name exists, no link to it remains, get_tag_usage_count(name) is 0
\* and entries, related files and links to other tags are unchanged.
C10_DeleteTagEveryName ==
    [][last'.op = "delete_tag" =>
        \A tag_name \in TagInputs :
              DeleteTagCall(tag_name, 0) =>
                  /\ last'.ret
                  /\ ~HasTag(DB', tag_name)
                  /\ \A l \in file_tags' : l[2] # SelectTagId(DB, tag_name)
                  /\ get_tag_usage_count(DB', tag_name) = 0
                  /\ stl_files' = stl_files
                  /\ related_files' = related_files
                  /\ file_tags' = {l \in file_tags : l[2] # SelectTagId(DB, tag_name)}
                  /\ tags' = {t \in tags : t.name # tag_name}]_vars

\* C10 amended: delete_tag(name) succeeds for every non-empty name, as a no-op
\* when no tag of that name is stored, with the effects stated in C10; for the
\* empty name it returns False and changes nothing.
C10_DeleteTagNonEmptyName ==
    [][last'.op = "delete_tag" =>
        \A tag_name \in TagInputs :
              DeleteTagCall(tag_name, 0) =>
                  IF Truthy(tag_name)
                  THEN /\ last'.ret
                       /\ ~HasTag(DB', tag_name)
                       /\ \A l \in file_tags' : l[2] # SelectTagId(DB, tag_name)
                       /\ get_tag_usage_count(DB', tag_name) = 0
                       /\ stl_files' = stl_files
                       /\ related_files' = related_files
                       /\ file_tags' = {l \in file_tags : l[2] # SelectTagId(DB, tag_name)}
                       /\ tags' = {t \in tags : t.name # tag_name}
                  ELSE ~last'.ret /\ DB' = DB]_vars

\* C10 witness: the first call stored an entry and the one tag it is linked
\* to, the second call deleted that tag: the entry is there, the tag and the
\* link are gone.
C10_Witness ==
    /\ last.op = "delete_tag" /\ last.branch = "present" /\ last.ret
    /\ calls = 2
    /\ sqlite_sequence.tags = 1 /\ tags = {} /\ file_tags = {}
    /\ stl_files # {}

----------------------------------------------------------------------------
(* C11 - C20 *)

\* how often x occurs in the list L
Count(L, x) == Cardinality({i \in DOMAIN L : L[i] = x})

\* the list L ascends strictly in the order of Python's str comparison
StrictlyAscending(L) == \A i, j \in DOMAIN L : i < j => TextLess(L[i], L[j])

\* the text s is empty or consists of whitespace only
OnlySpace(s) == \A i \in DOMAIN s : IsSpace(s[i])

\* C11: tag names are unique in every reachable state; add_tag(name) returns
\* False and stores nothing when name is empty or only whitespace; otherwise it
\* returns True, exactly one tag row carries the name afterwards, no tag row is
\* removed, entries, links and related files are untouched, the list
\* collect_all_tags returns holds the name exactly once, and a second add_tag
\* of the name changes nothing.
C11_TagNamesUnique == \A t, u \in tags : t.name = u.name => t = u

C11_AddTagIdempotent ==
    /\ []C11_TagNamesUnique
    /\ [][last'.op = "add_tag" =>
            \A tag_name \in TagInputs \cup {Blank} :
                AddTagCall(tag_name, 0) =>
                    IF OnlySpace(tag_name)
                    THEN ~last'.ret /\ DB' = DB
                    ELSE /\ last'.ret
                         /\ Cardinality({t \in tags' : t.name = tag_name}) = 1
                         /\ tags \subseteq tags'
                         /\ \A t \in tags' \ tags : t.name = tag_name
                         /\ HasTag(DB, tag_name) => tags' = tags
                         /\ stl_files' = stl_files
                         /\ file_tags' = file_tags
                         /\ related_files' = related_files
                         /\ Count(collect_all_tags(DB', 0).all_tags, tag_name) = 1
                         /\ add_tag(DB', tag_name, 0).db = DB']_vars

\* C11 witness: the first call stored an entry linked to the one tag it
\* created, the second call was add_tag of that tag's name: still one tag row.
C11_Witness ==
    /\ last.op = "add_tag" /\ last.ret
    /\ calls = 2
    /\ sqlite_sequence.tags = 1 /\ Cardinality(tags) = 1
    /\ file_tags # {}

\* C12: the list collect_all_tags returns ascends strictly in the order Python
\* compares str (so it is sorted and free of duplicates), its elements are
\* exactly the stored tag names and the names of DEFAULT_TAGS, and after the
\* call has returned every name of DEFAULT_TAGS is stored; whether it returns
\* or not, no tag row is removed, the rows added are default tags, and entries,
\* links and related files are unchanged.
C12_ListAllTagNames ==
    [][last'.op = "collect_all_tags" =>
          LET L == collect_all_tags(DB, 0).all_tags
          IN  /\ last'.branch # "raised" =>
                    /\ StrictlyAscending(L)
                    /\ {L[i] : i \in DOMAIN L} = {t.name : t \in tags} \cup {FDM, Resin}
                    /\ {L[i] : i \in DOMAIN L} = {t.name : t \in tags'}
                    /\ HasTag(DB', FDM) /\ HasTag(DB', Resin)
              /\ tags \subseteq tags'
              /\ \A t \in tags' \ tags : t.name \in {FDM, Resin}
              /\ stl_files' = stl_files
              /\ file_tags' = file_tags
              /\ related_files' = related_files]_vars

\* C12 witness: the call ran on a store whose first tag row is PLA, linked to
\* an entry: the defaults were seeded after it, and the list returned (FDM,
\* PLA, Resin) is not in the order of the rows.
C12_Witness ==
    /\ last.op = "collect_all_tags" /\ last.ret
    /\ \E t \in tags : t.name = PLA /\ t.id = 1
    /\ HasTag(DB, FDM) /\ HasTag(DB, Resin)
    /\ file_tags # {}

\* the entries whose path or name is empty or only whitespace
InvalidEntries == {e \in Entries : OnlySpace(e[1]) \/ OnlySpace(e[3])}

\* C13: add_or_update_file_with_related with a main_file_path or a name that
\* is empty or only whitespace returns False and leaves every table as it was,
\* with file_id None and with the id of an entry.
C13_InvalidUpsertRejected ==
    [][last'.op = "add_or_update_file_with_related" =>
          \A file_id \in FileIdInputs, e \in InvalidEntries :
              UpsertCall(file_id, e, 0) => (~last'.ret /\ DB' = DB)]_vars

\* C13 witness: a call was rejected by the validation on a store that holds an
\* entry, a link and a related file.
C13_Witness ==
    /\ last.op = "add_or_update_file_with_related"
    /\ last.branch = "invalid" /\ ~last.ret
    /\ stl_files # {} /\ file_tags # {} /\ related_files # EmptyBag

\* the entries with a valid path and name, no related file and no tag
BareEntries == {e \in Entries \ InvalidEntries : e[2] = << >> /\ e[4] = << >>}

\* C14: from every reachable state add_or_update_file_with_related(None, path,
\* [], name, []) with a valid path and name returns True, and the details of
\* the id the path lookup finds carry that name and path, the empty string as
\* tags and the empty list as related_files.
C14_BareUpsertReadsBack ==
    [][last'.op = "add_or_update_file_with_related" =>
          \A e \in BareEntries :
              UpsertCall(None, e, 0) =>
                  LET details == get_file_details_with_related(DB', SelectFileId(DB', e[1]))
                  IN  /\ last'.ret
                      /\ details.found
                      /\ details.name = e[3]
                      /\ details.file_path = e[1]
                      /\ details.tags = Empty
                      /\ details.related_files = << >>]_vars

\* C14 witness: the path was cataloged with tags and related files by the
\* first call and again, bare, by the second: the entry has a new id and the
\* rows of the old id are still stored.
C14_Witness ==
    /\ last.op = "add_or_update_file_with_related"
    /\ last.branch = "insert" /\ last.ret
    /\ calls = 2 /\ sqlite_sequence.stl_files = 2
    /\ \E f \in stl_files : stl_files = {f} /\ f.id = 2 /\ f.name = BoxName
    /\ get_file_details_with_related(DB, 2).tags = Empty
    /\ get_file_details_with_related(DB, 2).related_files = << >>
    /\ file_tags # {} /\ related_files # EmptyBag

\* the list L never descends in the order of Python's str comparison
NonDescending(L) == \A i, j \in DOMAIN L : i < j => ~TextLess(L[j], L[i])

\* the elements of the list L, each as often as it occurs
BagOfList(L) == [x \in {L[i] : i \in DOMAIN L} |-> Count(L, x)]

\* C15: after a successful add_or_update_file_with_related(id, path, related,
\* name, tags) on the id of an existing entry, the details of id carry name and
\* path, the tag names read from them are the distinct names of tags, each
\* once, and related_files is related in ascending order: nothing the entry
\* had before is left unless it was passed again.
C15_UpdateReplacesEntry ==
    [][(last'.op = "add_or_update_file_with_related" /\ last'.ret) =>
          \A file_id \in IssuedFileIds, e \in Entries :
              ((\E f \in stl_files : f.id = file_id) /\ UpsertCall(file_id, e, 0)) =>
                  LET details == get_file_details_with_related(DB', file_id)
                      names == TagsOf(details)
                  IN  /\ details.found
                      /\ details.name = e[3]
                      /\ details.file_path = e[1]
                      /\ {names[i] : i \in DOMAIN names} = {e[4][i] : i \in DOMAIN e[4]}
                      /\ \A n \in {names[i] : i \in DOMAIN names} : Count(names, n) = 1
                      /\ NonDescending(details.related_files)
                      /\ BagOfList(details.related_files) = BagOfList(e[2])]_vars

\* C15 witness: the first call stored entry 1 with tag FDM and a related file,
\* the second updated entry 1 with the tags PLA, PLA and no related file: the
\* entry is linked to PLA alone and owns no related file.
C15_Witness ==
    /\ last.op = "add_or_update_file_with_related"
    /\ last.branch = "update" /\ last.ret
    /\ calls = 2 /\ sqlite_sequence.stl_files = 1
    /\ \E f \in stl_files : stl_files = {f} /\ f.id = 1 /\ f.name = LidName
    /\ HasTag(DB, FDM)
    /\ file_tags = {<<1, SelectTagId(DB, PLA)>>}
    /\ related_files = EmptyBag

\* the number of related-file rows the entry file_id owns
RelatedCount(d, file_id) == Len(SelectRelated(d, file_id))

\* the id a successful add_or_update_file_with_related(file_id, path, ...) wrote
\* to: file_id, or the id the path lookup finds when file_id is None
WrittenId(d, file_id, path) == IF file_id = None THEN SelectFileId(d, path) ELSE file_id

\* C16: an entry is multi-part exactly when it owns at least 2 files, the main
\* file counted: after a successful add_or_update_file_with_related the details
\* report is_multi_part = (1 + number of related files >= 2); with one related
\* file path passed they report is_multi_part True and that path as
\* related_files, with none passed they report is_multi_part False.
C16_MultiPartFromTwoFiles ==
    [][(last'.op = "add_or_update_file_with_related" /\ last'.ret) =>
          \A file_id \in FileIdInputs, e \in Entries :
              (/\ file_id = None \/ \E f \in stl_files : f.id = file_id
               /\ UpsertCall(file_id, e, 0)) =>
                  LET details == get_file_details_with_related(
                                     DB', WrittenId(DB', file_id, e[1]))
                  IN  /\ details.is_multi_part = (1 + Len(details.related_files) >= 2)
                      /\ Len(e[2]) = 1 =>
                            (details.is_multi_part /\ details.related_files = e[2])
                      /\ e[2] = << >> => ~details.is_multi_part]_vars

\* C17, the state part: each entry's is_multi_part is true exactly when the
\* entry owns more than one related-file row.
C17_FlagMatchesRelatedRows ==
    \A f \in stl_files : f.is_multi_part = (RelatedCount(DB, f.id) > 1)

\* C17: add_or_update_file_with_related stores is_multi_part = (number of
\* related file paths passed > 1), and in every reachable state each entry's
\* is_multi_part is true exactly when it owns more than one related-file row.
C17_MultiPartMoreThanOneRelated ==
    /\ []C17_FlagMatchesRelatedRows
    /\ [][(last'.op = "add_or_update_file_with_related" /\ last'.ret) =>
            \A file_id \in FileIdInputs, e \in Entries :
                (/\ file_id = None \/ \E f \in stl_files : f.id = file_id
                 /\ UpsertCall(file_id, e, 0)) =>
                    get_file_details_with_related(
                        DB', WrittenId(DB', file_id, e[1])).is_multi_part = (Len(e[2]) > 1)]_vars

\* C17 witness: add_or_update_file moved an entry that owns two related files
\* to another path: the flag it does not write is still True.
C17_Witness ==
    /\ last.op = "add_or_update_file" /\ last.branch = "update" /\ last.ret
    /\ \E f \in stl_files :
          f.is_multi_part /\ f.file_path = LidPath /\ RelatedCount(DB, f.id) = 2

\* C18: add_or_update_file_with_related is atomic: a call in which a statement
\* raised (a UNIQUE conflict of the UPDATE, a storage error at any later
\* statement or at the commit) returns False, and a call that returns False
\* leaves every table as it was before the call.
C18_UpsertAtomic ==
    [][(/\ last'.op = "add_or_update_file_with_related"
        /\ last'.err # "none" \/ ~last'.ret) =>
          (~last'.ret /\ DB' = DB)]_vars

\* C18 witness: the call failed on a storage error after its earlier
\* statements had written, on a store holding an entry with a related file.
C18_Witness ==
    /\ last.op = "add_or_update_file_with_related"
    /\ last.err = "storage" /\ last.dirty /\ ~last.ret
    /\ stl_files # {} /\ related_files # EmptyBag

\* the paths entries are cataloged under
Paths == {BoxPath, LidPath}

\* C19: date_added of the entry of a path is the same before and after every
\* call that keeps the path cataloged (a replace import aside, which clears
\* the catalog first).
C19_DateAddedSetOnce ==
    [][~(last'.op = "import_from_json" /\ last'.branch = "replace") =>
          \A path \in Paths :
              (SelectFileId(DB, path) # None /\ SelectFileId(DB', path) # None) =>
                  get_file_details_with_related(DB', SelectFileId(DB', path)).date_added
                      = get_file_details_with_related(DB, SelectFileId(DB, path)).date_added]_vars

\* C20: delete_files leaves the tag rows as they were, and a call that
\* removes a tag row is a delete_tag, an update_tag or a replace import.
C20_DeleteFilesKeepsTags ==
    [][/\ last'.op = "delete_files" => tags' = tags
       /\ (\E t \in tags : t \notin tags') =>
              \/ last'.op \in {"delete_tag", "update_tag"}
              \/ last'.op = "import_from_json" /\ last'.branch = "replace"]_vars

\* C20 witness: the first call stored the one entry and the tags linked to
\* it, the second deleted the entry: no entry and no link is left, the tags are.
C20_Witness ==
    /\ last.op = "delete_files" /\ last.ret
    /\ calls = 2 /\ sqlite_sequence.stl_files = 1
    /\ stl_files = {} /\ file_tags = {}
    /\ tags # {}

----------------------------------------------------------------------------
(* C21 - C30 *)

\* C21: delete_files(ids) is atomic over the batch: a call that returns True
\* has removed the entry row and the links of every listed id; a call in which
\* a statement raised a storage error returns False, and a call that returns
\* False has removed nothing.
C21_DeleteFilesAtomic ==
    [][last'.op = "delete_files" =>
          /\ last'.err # "none" => ~last'.ret
          /\ ~last'.ret => DB' = DB
          /\ last'.ret =>
                \A file_ids \in FileIdLists \cup {Ascending(IssuedFileIds)},
                   fault \in {0} \cup Faults :
                    DeleteFilesCall(file_ids, fault) =>
                        \A k \in DOMAIN file_ids :
                            /\ ~\E f \in stl_files' : f.id = file_ids[k]
                            /\ ~\E l \in file_tags' : l[1] = file_ids[k]]_vars

\* C21 witness: a batch delete on a store of two entries with links failed on
\* a storage error after its earlier statements had written: both entries and
\* the links are there.
C21_Witness ==
    /\ last.op = "delete_files"
    /\ last.err = "storage" /\ last.dirty /\ ~last.ret
    /\ Cardinality(stl_files) = 2
    /\ \A f \in stl_files : \E l \in file_tags : l[1] = f.id

\* text contains term as a substring, compared without regard to case
Contains(text, term) ==
    \E i \in 1 .. Len(text) - Len(term) + 1 :
        \A k \in DOMAIN term : LowerChar(text[i + k - 1]) = LowerChar(term[k])

\* C22: get_filtered_files(term) returns, in ascending order of name and each
\* once, exactly the entries whose name or some linked tag's name contains
\* term, compared without regard to case and with every character of term
\* taken for itself; with the empty term it returns every entry once.
C22_ListEntries ==
    \A term \in SearchTerms :
        LET results == get_filtered_files(DB, term)
            ids == {results[i].id : i \in DOMAIN results}
        IN  /\ \A i, j \in DOMAIN results :
                    /\ i < j => ~TextLess(results[j].name, results[i].name)
                    /\ results[i].id = results[j].id => i = j
            /\ \A i \in DOMAIN results :
                    \E f \in stl_files : /\ f.id = results[i].id
                                          /\ f.name = results[i].name
                                          /\ f.file_path = results[i].path
            /\ ids = {f.id : f \in {g \in stl_files :
                          \/ term = Empty
                          \/ Contains(g.name, term)
                          \/ \E n \in TagNames : Linked(DB, g.id, n) /\ Contains(n, term)}}

\* the (file_path, name, tag set) triples of the catalog
Triples(d) ==
    {<<f.file_path, f.name, {t.name : t \in {g \in d.tags : <<f.id, g.id>> \in d.file_tags}}>> :
        f \in d.stl_files}

\* C23: in every reachable state, export_to_json followed by import_from_json
\* of the exported document with replace = True leaves a catalog with the same
\* set of (file_path, name, tag set) triples.
C23_ExportImportRoundTrip ==
    Triples(import_from_json(DB, export_to_json(DB), TRUE, 0, now).db) = Triples(DB)

\* the documents every item of which has a name
WellFormedDocuments ==
    {doc \in Documents : \A i \in DOMAIN doc : "name" \in DOMAIN doc[i][2]}

\* the tags a document lists for its i-th item
DocTags(doc, i) ==
    IF "tags" \in DOMAIN doc[i][2]
    THEN {doc[i][2].tags[k] : k \in DOMAIN doc[i][2].tags}
    ELSE {}

\* the catalog d holds the i-th item of doc: its path, its name and exactly
\* its tags
HoldsItem(d, doc, i) ==
    \E f \in d.stl_files :
        /\ f.file_path = doc[i][1]
        /\ f.name = doc[i][2].name
        /\ {t.name : t \in {g \in d.tags : <<f.id, g.id>> \in d.file_tags}} = DocTags(doc, i)

\* C24: import_from_json(doc, replace = True) of a well-formed document, with
\* any number of entries, possibly none, succeeds and leaves as cataloged
\* paths exactly the keys of doc, each with the name and the tag set of doc,
\* and no stored tag name other than a default or a tag named in doc.
C24_ReplaceImport ==
    [][last'.op = "import_from_json" =>
          \A doc \in WellFormedDocuments :
              ImportCall(doc, TRUE, 0) =>
                  /\ last'.ret
                  /\ {f.file_path : f \in stl_files'} = {doc[i][1] : i \in DOMAIN doc}
                  /\ \A i \in DOMAIN doc : HoldsItem(DB', doc, i)
                  /\ \A t \in tags' :
                        \/ t.name \in {DEFAULT_TAGS[k] : k \in DOMAIN DEFAULT_TAGS}
                        \/ \E i \in DOMAIN doc : t.name \in DocTags(doc, i)]_vars

\* the names of the tags linked to file_id
TagSet(d, file_id) == {t.name : t \in {g \in d.tags : <<file_id, g.id>> \in d.file_tags}}

\* C25: a successful import_from_json(doc, replace = False) merges: every
\* entry whose path is no key of doc keeps its name, tag set, related files
\* and is_multi_part, and every key of doc ends as an entry with the name of
\* doc and exactly the tags doc lists for it, none when doc has no tags key.
C25_MergeImport ==
    [][(last'.op = "import_from_json" /\ last'.ret /\ last'.branch = "merge") =>
          \A doc \in Documents \cup {FaultDocument}, fault \in {0} \cup Faults :
              ImportCall(doc, FALSE, fault) =>
                  /\ \A i \in DOMAIN doc : HoldsItem(DB', doc, i)
                  /\ \A f \in stl_files :
                        f.file_path \notin {doc[i][1] : i \in DOMAIN doc} =>
                            \E g \in stl_files' :
                                /\ g.file_path = f.file_path
                                /\ g.name = f.name
                                /\ g.is_multi_part = f.is_multi_part
                                /\ TagSet(DB', g.id) = TagSet(DB, f.id)
                                /\ SelectRelated(DB', g.id) = SelectRelated(DB, f.id)]_vars

\* C25 witness: a merge import of a document with the one key /a succeeded on
\* a catalog of two tagged entries: /b keeps its name, its tag FDM and its
\* related file, while /a carries the name and the tag of the document and no
\* longer the tag FDM it was linked to under its earlier id.
C25_Witness ==
    /\ last.op = "import_from_json" /\ last.ret /\ last.branch = "merge"
    /\ \E f \in stl_files :
            /\ f.file_path = LidPath /\ f.name = BoxName
            /\ TagSet(DB, f.id) = {FDM}
            /\ RelatedCount(DB, f.id) = 1
    /\ \E g \in stl_files :
            /\ g.file_path = BoxPath /\ g.name = LidName
            /\ TagSet(DB, g.id) = {Empty}
            /\ \E l \in file_tags : l[1] # g.id /\ l[1] \notin {f.id : f \in stl_files}

\* C26: import_from_json is atomic over the document in both modes: a call in
\* which processing failed at some item, by a storage error or by an item
\* without a name, returns False, and a call that returns False leaves
\* entries, tags, links and related files as they were before the call.
C26_ImportAtomic ==
    [][last'.op = "import_from_json" =>
          /\ last'.err # "none" => ~last'.ret
          /\ ~last'.ret => DB' = DB]_vars

\* C26 witness: a replace import failed on its second item, which has no
\* name, after it had cleared the catalog and written the first item: the
\* earlier entries, links and tags beyond the defaults are there.
C26_Witness ==
    /\ last.op = "import_from_json" /\ ~last.ret
    /\ last.err = "keyerror" /\ last.dirty /\ last.branch = "replace"
    /\ stl_files # {} /\ file_tags # {}
    /\ \E t \in tags : t.name \notin {DEFAULT_TAGS[k] : k \in DOMAIN DEFAULT_TAGS}

\* C27: over any sequence of starts and user operations the legacy document
\* is imported by migrate_json_if_needed at most once: a call that imports it
\* is the first that does, so entries of it the user deleted do not come back.
C27_MigratesOnce ==
    [][(last'.op = "migrate_json_if_needed" /\ last'.ret) => ~migrated]_vars

\* C28: a storage error in any store operation is caught inside the store:
\* the call ends by returning a failure result, never by raising to its
\* caller, and the store is as before the call.
C28_StorageErrorsCaught ==
    [][last'.err = "storage" =>
          /\ last'.branch # "raised"
          /\ ~last'.ret
          /\ DB' = DB]_vars

\* the paths stored as related files of the entry at path
StoredRelated(d, path) ==
    LET L == SelectRelated(d, SelectFileId(d, path))
    IN  {L[k] : k \in DOMAIN L}

\* C29: on every folder-based add that reaches the store (Browse Folder then
\* Add to Catalog in the main window, the bulk importer with the first file
\* or a prompted file as main), the main file path is no element of the
\* related files stored for the entry.
C29_MainNotRelated ==
    [][(last'.op \in {"add_to_catalog", "add_or_update_file_with_related"} /\ last'.ret) =>
          /\ \A a \in FolderAdds :
                AddFolderToCatalogCall(a) => a[1][a[2]] \notin StoredRelated(DB', a[1][a[2]])
          /\ \A b \in BulkFolders :
                BulkImportCall(b) =>
                    LET main == IF b[3] /\ Len(b[1]) > 1 THEN b[4] ELSE b[1][1]
                    IN  main \notin StoredRelated(DB', main)]_vars

\* the bulk importer alone keeps the main file out of the related files
C29_BulkMainNotRelated ==
    [][(last'.op = "add_or_update_file_with_related" /\ last'.ret) =>
          \A b \in BulkFolders :
                BulkImportCall(b) =>
                    LET main == IF b[3] /\ Len(b[1]) > 1 THEN b[4] ELSE b[1][1]
                    IN  main \notin StoredRelated(DB', main)]_vars

\* C30: create_database on a store that has its tables leaves every entry,
\* tag, link and related-file row unchanged and raises no error, however
\* often it is called.
C30_CreateDatabaseIdempotent ==
    [][last'.op = "create_database" =>
          /\ DB' = DB
          /\ last'.ret /\ last'.err = "none" /\ last'.branch = "schema"]_vars

\* C30 witness: create_database was the third call made, on a
\* store that holds an entry, a tag, a link and a related file.
C30_Witness ==
    /\ last.op = "create_database" /\ last.ret /\ calls = 3
    /\ stl_files # {} /\ tags # {} /\ file_tags # {}
    /\ related_files # EmptyBag

----------------------------------------------------------------------------
(* C31 - C39 *)

\* C31: migrate_json_if_needed changes the store only when it has no entry
\* and the legacy document exists, and then it does what import_from_json of
\* that document with replace = False does: it returns True and every item of
\* the document is cataloged; when an entry exists or the document is absent
\* it returns False and entries, tags, links and related files are unchanged.
C31_MigrateOnlyWhenEmpty ==
    [][last'.op = "migrate_json_if_needed" =>
          \A exists \in BOOLEAN :
              MigrateCall(exists) =>
                  IF stl_files = {} /\ exists
                  THEN /\ last'.ret
                       /\ DB' = import_from_json(DB, LegacyDocument, FALSE, 0, now).db
                       /\ \A i \in DOMAIN LegacyDocument : HoldsItem(DB', LegacyDocument, i)
                  ELSE ~last'.ret /\ DB' = DB]_vars

\* C31 witness: the call was made on a catalog that holds an entry with a tag
\* and a related file: it returned False.
C31_Witness ==
    /\ last.op = "migrate_json_if_needed" /\ ~last.ret /\ last.branch = "nonempty"
    /\ stl_files # {} /\ file_tags # {} /\ related_files # EmptyBag

\* the ids the tags called a or b have in d
IdsOf(d, a, b) == {t.id : t \in {g \in d.tags : g.name \in {a, b}}}

\* C33: update_tag(A, B) changes nothing but A and B, in the rename case and
\* in the merge case: the entry rows (id, name, path, date, is_multi_part) and
\* the related files, every tag row other than those of A and B, and every
\* link to a tag other than A and B are the same before and after the call.
C33_UpdateTagFrame ==
    [][last'.op = "update_tag" =>
          \A old_name, new_name \in TagInputs, fault \in {0} \cup Faults :
              UpdateTagCall(old_name, new_name, fault) =>
                  LET ab == IdsOf(DB, old_name, new_name) \cup IdsOf(DB', old_name, new_name)
                  IN  /\ stl_files' = stl_files
                      /\ related_files' = related_files
                      /\ {t \in tags' : t.name \notin {old_name, new_name}}
                            = {t \in tags : t.name \notin {old_name, new_name}}
                      /\ {l \in file_tags' : l[2] \notin ab}
                            = {l \in file_tags : l[2] \notin ab}]_vars

\* C33 witness: a merge succeeded on a catalog in which one entry is linked to
\* a third tag, the one with the empty name, and another carries the merged
\* tag: the third tag and its link are there.
C33_Witness ==
    /\ last.op = "update_tag" /\ last.ret /\ last.branch \in {"merge", "merge_both"}
    /\ Cardinality(stl_files) = 2
    /\ \E f \in stl_files : Linked(DB, f.id, Empty)
    /\ \E g \in stl_files : Linked(DB, g.id, FDM) \/ Linked(DB, g.id, PLA)

\* the rows of d that carry file_id: links and related files
RowsOf(d, file_id) ==
    [links |-> {l \in d.file_tags : l[1] = file_id},
     related |-> SelectRelated(d, file_id)]

\* C34: add_or_update_file_with_related and add_or_update_file called with a
\* file_id that is not None and not the id of an existing entry write nothing
\* for that id: the links and related-file rows carrying it are as before, and
\* the call does not return True.
C34_UnknownIdWritesNothing ==
    [][last'.op \in {"add_or_update_file_with_related", "add_or_update_file"} =>
          \A file_id \in FileIdInputs \ {None} :
              (~\E f \in stl_files : f.id = file_id) =>
                  /\ \A e \in Entries :
                        UpsertCall(file_id, e, 0) =>
                            ~last'.ret /\ RowsOf(DB', file_id) = RowsOf(DB, file_id)
                  /\ \A path \in Paths, tag_list \in {<< >>, <<FDM>>} :
                        AddOrUpdateFileCall(file_id, path, LidName, tag_list, 0) =>
                            ~last'.ret /\ RowsOf(DB', file_id) = RowsOf(DB, file_id)]_vars

\* the tag names read from the details of an entry, as a set
DetailTags(details) ==
    LET L == TagsOf(details) IN {L[k] : k \in DOMAIN L}

\* C35: in every reachable state, export_to_json followed by import_from_json
\* of the exported document into the same store with replace = False leaves
\* what get_file_details_with_related reports for every cataloged path as it
\* was: name, tag set, related_files and is_multi_part.
C35_ExportMergeImportNoOp ==
    LET after == import_from_json(DB, export_to_json(DB), FALSE, 0, now).db
    IN  \A f \in stl_files :
            LET a == get_file_details_with_related(DB, f.id)
                b == get_file_details_with_related(after, SelectFileId(after, f.file_path))
            IN  /\ b.found
                /\ b.name = a.name
                /\ DetailTags(b) = DetailTags(a)
                /\ b.related_files = a.related_files
                /\ b.is_multi_part = a.is_multi_part

\* C36: an entry keeps its id while its path stays cataloged: after a
\* successful add_or_update_file_with_related or add_or_update_file with
\* file_id None, or import_from_json, every path that was cataloged before and
\* is cataloged after the call has the id it had.
C36_IdStable ==
    [][(/\ last'.op \in {"add_or_update_file_with_related", "add_or_update_file",
                          "import_from_json"}
        /\ last'.ret) =>
          \A f \in stl_files, g \in stl_files' :
              g.file_path = f.file_path => g.id = f.id]_vars

\* C32: delete_files_from_catalog asks before it deletes.  When confirm_delete
\* is true or absent and the user declines, delete_files is not called, the
\* store is unchanged and the result is False; with no ids the result is False
\* with no dialog and no store call; the store changes only on a call where
\* the user confirmed or confirm_delete is false.
C32_DeleteConfirmation ==
    [][last'.op = "delete_files_from_catalog" =>
          /\ \A selection \in SUBSET DOMAIN app.listbox_mapping, fault \in {0, 1} :
                (ConfirmDelete(app.settings) /\ DeleteSelectedCall(selection, FALSE, fault))
                    => (DB' = DB /\ ~last'.ret)
          /\ DB' # DB =>
                \E selection \in SUBSET DOMAIN app.listbox_mapping, answer \in BOOLEAN,
                   fault \in {0, 1} :
                    /\ DeleteSelectedCall(selection, answer, fault)
                    /\ answer \/ ~ConfirmDelete(app.settings)
          /\ \A settings \in SettingsInputs, answer \in BOOLEAN :
                LET r == delete_files_from_catalog(DB, << >>, settings, answer, 0)
                IN  r.db = DB /\ ~r.ret /\ ~r.prompted /\ ~r.called
          /\ \A settings \in SettingsInputs,
                selection \in (SUBSET DOMAIN app.listbox_mapping) \ {{}} :
                LET r == delete_files_from_catalog(DB, SelectedIds(app, selection),
                                                   settings, FALSE, 0)
                IN  ConfirmDelete(settings) => (r.db = DB /\ ~r.ret /\ ~r.called)]_vars

\* the user declined to delete a listed entry of a store that holds entries
C32_Witness ==
    /\ last.op = "delete_files_from_catalog"
    /\ last.branch = "declined"
    /\ ~last.ret
    /\ ConfirmDelete(app.settings)
    /\ app.listbox_mapping # << >>
    /\ \A index \in DOMAIN app.listbox_mapping :
          \E f \in stl_files : f.id = app.listbox_mapping[index]

\* C37: under every interleaving of the import worker with check_queue, every
\* message the worker enqueued is eventually dequeued and shown.
C37_EveryMessageShown ==
    \A k \in 1 .. MaxMessages : (bulk.put >= k) ~> (bulk.shown >= k)

\* C38: an entry opened with edit_selected and submitted with update_in_catalog
\* with no field changed is stored as it was: same name, path, tag set,
\* related-file set and is_multi_part; and in every state of the window
\* edit_mode is true exactly when editing_file_id is not None.
C38_EditRoundTrip ==
    [][/\ (last'.op = "update_in_catalog" /\ last'.ret /\ ~app.touched) =>
             LET id == app.editing_file_id
                 before == get_file_details_with_related(DB, id)
                 after == get_file_details_with_related(DB', id)
             IN  /\ after.found
                 /\ after.name = before.name
                 /\ after.file_path = before.file_path
                 /\ TagSet(DB', id) = TagSet(DB, id)
                 /\ {after.related_files[k] : k \in DOMAIN after.related_files}
                      = {before.related_files[k] : k \in DOMAIN before.related_files}
                 /\ after.is_multi_part = before.is_multi_part
       /\ (app'.edit_mode <=> app'.editing_file_id # None)]_vars

\* C39: when Browse File was the last action that selected a path before Add
\* to Catalog, the entry is stored with no related file.
C39_RelatedOfSelection ==
    [][(last'.op = "add_to_catalog" /\ last'.ret /\ app.selected = "file") =>
          StoredRelated(DB', Strip(app.file_path_var)) = {}]_vars

====
